---- MODULE Spec2Model ----
(***************************************************************************)
(* Model of the rate-limited reading cache of app/dexcom_client.py         *)
(* (class DexcomClient).  Threads call get_current_reading concurrently;   *)
(* every program position at which another thread or the clock can         *)
(* interleave is a value of pc.  Time is datetime.now() in whole seconds.  *)
(* Optional values (Python None / a value) are sequences of length 0 / 1.  *)
(***************************************************************************)
EXTENDS Integers, Sequences, FiniteSets, TLC

(* ------------------------------------------------------------------ *)
(* Program constant and model bounds                                   *)
(* ------------------------------------------------------------------ *)

MIN_API_INTERVAL_SECONDS == 300

\* number of get_current_reading invocations explored (all threads together)
MaxCalls == 3

\* number of clock advances explored
MaxTicks == 3

\* the clock advances in half intervals, so that elapsed times below, equal
\* to and above MIN_API_INTERVAL_SECONDS all occur
TickSteps == {150}

Threads == {"t1", "t2"}

None == << >>
Some(x) == << x >>
Get(o) == o[1]

(* ------------------------------------------------------------------ *)
(* The upstream source (pydexcom), an external collaborator             *)
(* ------------------------------------------------------------------ *)

\* readings the upstream can deliver: a value and one pass-through field
R120 == [value |-> 120, trend |-> None]
R149 == [value |-> 149, trend |-> Some(5)]
R160 == [value |-> 160, trend |-> Some(4)]

\* get_glucose_readings(minutes=30, max_count=2): newest first, 0..2 readings
RecentResponses == { << >>, << R160 >>, << R149, R160 >>, << R160, R149 >> }

\* get_latest_glucose_reading(): a reading or None
LatestResponses == { None, Some(R120) }

\* str(e) of the exceptions the upstream can raise
ErrorMessages == { "SessionError" }

VARIABLES
    now,              \* datetime.now(), seconds
    ticks,            \* clock advances so far
    calls,            \* get_current_reading invocations so far
    dexcom,           \* self._dexcom is not None
    lock,             \* holder of self._lock, or None
    last_api_call,    \* self._last_api_call
    cached_data,      \* self._cached_data
    last_error,       \* self._last_error
    last_error_time,  \* self._last_error_time
    pc,               \* per thread: position in get_current_reading
    glucose_data,     \* per thread: local glucose_data (lines 151-161)
    exc,              \* per thread: the exception being handled (line 182)
    ret,              \* per thread: outcome of the finished call
    entry,            \* per thread: what the rate-limit check saw (lines 109-110)
    upstream,         \* per thread: upstream calls of the current invocation
    last_fetch,       \* time of the most recent get_glucose_readings call
    fetched,          \* time and reading of the most recent successful store
    counters,         \* the usage counters of the instance (None: no such attribute)
    statistics,       \* what get_statistics returned
    status,           \* what the last introspection call returned
    fmt_in,           \* arguments of format_for_awtrix
    payload,          \* the AwtrixResponse format_for_awtrix returned
    mqtt              \* the MQTTPublisher instance and its paho clients

vars == << now, ticks, calls, dexcom, lock, last_api_call, cached_data,
           last_error, last_error_time, pc, glucose_data, exc, ret, entry,
           upstream, last_fetch, fetched, counters, statistics, status,
           fmt_in, payload, mqtt >>

\* state that get_current_reading does not touch
outside == << counters, statistics, status, fmt_in, payload, mqtt >>

\* an MQTTPublisher after __init__: no client, not connected
NoMqtt ==
    [ client |-> None,        \* self._client
      connected |-> FALSE,    \* self._connected
      created |-> 0,          \* paho clients constructed so far
      loops |-> {},           \* clients whose network loop is running
      sent |-> 0,             \* messages handed to self._client.publish
      last |-> [op |-> "init", rc |-> 0, result |-> FALSE] ]

\* state of the cache and of its callers
client == << now, ticks, calls, dexcom, lock, last_api_call, cached_data,
            last_error, last_error_time, pc, glucose_data, exc, ret, entry,
            upstream, last_fetch, fetched >>

cache == << last_api_call, cached_data, last_error, last_error_time >>

(* ------------------------------------------------------------------ *)
(* Pure helpers                                                        *)
(* ------------------------------------------------------------------ *)

\* elapsed = (datetime.now() - self._last_api_call).total_seconds()
Elapsed(t_now, t_last) == t_now - Get(t_last)

\* int((elapsed / 300) * 100) in IEEE double arithmetic: for whole seconds in
\* 0..300 the product falls just below the integer for 87, 171 and 174
\* (0.29 * 100 = 28.999999999999996) and int() truncates
FloatPercent(elapsed) ==
    IF elapsed \in {87, 171, 174}
    THEN (elapsed * 100) \div MIN_API_INTERVAL_SECONDS - 1
    ELSE (elapsed * 100) \div MIN_API_INTERVAL_SECONDS

Min(a, b) == IF a <= b THEN a ELSE b
Max(a, b) == IF a >= b THEN a ELSE b

\* mutant of RefreshProgress: the percentage is not capped at 100
RefreshProgress_NoCap(t_now, t_last) ==
    IF t_last = None THEN 100
    ELSE FloatPercent(Elapsed(t_now, t_last))

\* _get_refresh_progress_unlocked
RefreshProgress(t_now, t_last) ==
    IF t_last = None THEN 100
    ELSE Min(100, FloatPercent(Elapsed(t_now, t_last)))

\* mutant of CanCallApi: the interval taken in minutes instead of seconds
CanCallApi_Minutes(t_now, t_last) ==
    IF t_last = None THEN TRUE
    ELSE Elapsed(t_now, t_last) >= MIN_API_INTERVAL_SECONDS \div 60

\* _can_call_api_unlocked
CanCallApi(t_now, t_last) ==
    IF t_last = None THEN TRUE
    ELSE Elapsed(t_now, t_last) >= MIN_API_INTERVAL_SECONDS

\* _get_seconds_until_next_call_unlocked
SecondsUntilNextCall(t_now, t_last) ==
    IF t_last = None THEN 0
    ELSE Max(0, MIN_API_INTERVAL_SECONDS - Elapsed(t_now, t_last))

(* ------------------------------------------------------------------ *)
(* Values                                                              *)
(* ------------------------------------------------------------------ *)

\* the readings as the upstream hands them over at time t: the newest one
\* was measured at t, so measurement times never go backwards; the code reads
\* the datetime of the newest reading only (line 158)
Measured(readings, t) ==
    [i \in DOMAIN readings |->
        [ value |-> readings[i].value,
          trend |-> readings[i].trend,
          datetime |-> IF i = 1 THEN Some(t) ELSE None ]]

\* mutant of MakeGlucoseData: the delta taken as previous - current
MakeGlucoseData_Reversed(readings) ==
    LET current == readings[1]
        previous == IF Len(readings) > 1 THEN Some(readings[2]) ELSE None
    IN  [ value |-> current.value,
          trend |-> current.trend,
          delta |-> IF previous # None
                    THEN Some(Get(previous).value - current.value) ELSE None,
          previous_value |-> IF previous # None
                             THEN Some(Get(previous).value) ELSE None,
          timestamp |-> current.datetime ]

\* mutant of MakeGlucoseData: previous_value is not passed to GlucoseData
MakeGlucoseData_NoPrevious(readings) ==
    LET current == readings[1]
        previous == IF Len(readings) > 1 THEN Some(readings[2]) ELSE None
    IN  [ value |-> current.value,
          trend |-> current.trend,
          delta |-> IF previous # None
                    THEN Some(current.value - Get(previous).value) ELSE None,
          previous_value |-> None,
          timestamp |-> current.datetime ]

\* GlucoseData(value, trend, timestamp, delta, previous_value) built from the
\* readings list, newest first (lines 141-161); the timestamp is kept as the
\* time it prints
MakeGlucoseData(readings) ==
    LET current == readings[1]
        previous == IF Len(readings) > 1 THEN Some(readings[2]) ELSE None
    IN  [ value |-> current.value,
          trend |-> current.trend,
          delta |-> IF previous # None
                    THEN Some(current.value - Get(previous).value) ELSE None,
          previous_value |-> IF previous # None
                             THEN Some(Get(previous).value) ELSE None,
          timestamp |-> current.datetime ]

NoRet == [kind |-> "none", data |-> None, progress |-> 0, error |-> None]
\* return data, progress
Return(data, progress) ==
    [kind |-> "return", data |-> data, progress |-> progress, error |-> None]
\* raise (the caught exception propagates)
Raise(msg) == [kind |-> "raise", data |-> None, progress |-> 0, error |-> Some(msg)]

\* what a call saw at lines 109-110: whether a call time was recorded less
\* than the interval ago, and whether self._cached_data was set
NoEntry == [checked |-> FALSE, limited |-> FALSE, had_cache |-> FALSE]

\* one record of the upstream's call log: the call, the message of the
\* exception it raised (or None) and what it returned
UpCall(name, raised, readings) ==
    [call |-> name, raised |-> raised, readings |-> readings]

(* ------------------------------------------------------------------ *)
(* Initial state: DexcomClient.__init__ (lines 20-29)                  *)
(* ------------------------------------------------------------------ *)

\* __init__ sets no usage counter: the instance has no such attributes
NoCounters == [total_api_calls |-> None, cache_hits |-> None, api_errors |-> None]

\* no introspection call has returned yet
NoStatus == [op |-> "none", value |-> 0]

\* nothing has been formatted and no statistics were asked for
InitOutside ==
    /\ counters = NoCounters
    /\ statistics = None
    /\ status = NoStatus
    /\ fmt_in = None
    /\ payload = None
    /\ mqtt = NoMqtt

\* a fresh DexcomClient and callers that have not called yet
InitClient ==
    /\ now = 0
    /\ ticks = 0
    /\ calls = 0
    /\ dexcom = FALSE
    /\ lock = None
    /\ last_api_call = None
    /\ cached_data = None
    /\ last_error = None
    /\ last_error_time = None
    /\ pc = [t \in Threads |-> "idle"]
    /\ glucose_data = [t \in Threads |-> None]
    /\ exc = [t \in Threads |-> None]
    /\ ret = [t \in Threads |-> NoRet]
    /\ entry = [t \in Threads |-> NoEntry]
    /\ upstream = [t \in Threads |-> << >>]
    /\ last_fetch = None
    /\ fetched = None

Init == InitClient /\ InitOutside

(* ------------------------------------------------------------------ *)
(* The clock                                                           *)
(* ------------------------------------------------------------------ *)

Tick ==
    /\ ticks < MaxTicks
    /\ \E d \in TickSteps : now' = now + d
    /\ ticks' = ticks + 1
    /\ UNCHANGED << calls, dexcom, lock, last_api_call, cached_data, last_error,
                    last_error_time, pc, glucose_data, exc, ret, entry,
                    upstream, last_fetch, fetched >>
    /\ UNCHANGED outside

(* ------------------------------------------------------------------ *)
(* get_current_reading (lines 96-193), one action per program step     *)
(* ------------------------------------------------------------------ *)

\* a caller invokes get_current_reading
Call(t) ==
    /\ pc[t] \in {"idle", "done"}
    /\ calls < MaxCalls
    /\ calls' = calls + 1
    /\ pc' = [pc EXCEPT ![t] = "lock107"]
    /\ ret' = [ret EXCEPT ![t] = NoRet]
    /\ entry' = [entry EXCEPT ![t] = NoEntry]
    /\ upstream' = [upstream EXCEPT ![t] = << >>]
    /\ UNCHANGED << now, ticks, dexcom, lock, last_api_call, cached_data,
                    last_error, last_error_time, glucose_data, exc,
                    last_fetch, fetched >>
    /\ UNCHANGED outside

\* "with self._lock:" at lines 107, 136, 164 and 188: blocks until free
AcquireLock(t) ==
    /\ pc[t] \in {"lock107", "lock136", "lock164", "lock188"}
    /\ lock = None
    /\ lock' = Some(t)
    /\ pc' = [pc EXCEPT ![t] = CASE pc[t] = "lock107" -> "check109"
                                 [] pc[t] = "lock136" -> "store138"
                                 [] pc[t] = "lock164" -> "store165"
                                 [] pc[t] = "lock188" -> "fallback189"]
    /\ UNCHANGED << now, ticks, calls, dexcom, last_api_call, cached_data,
                    last_error, last_error_time, glucose_data, exc, ret,
                    entry, upstream, last_fetch, fetched >>
    /\ UNCHANGED outside

\* mutant of CheckRateLimit: single-flight, a call that finds another call's
\* fetch in flight and a cached reading takes the cached return
CheckRateLimit_SingleFlight(t) ==
    /\ pc[t] = "check109"
    /\ lock = Some(t)
    /\ entry' = [entry EXCEPT ![t] =
                    [checked |-> TRUE,
                     limited |-> /\ last_api_call # None
                                 /\ now - Get(last_api_call) < MIN_API_INTERVAL_SECONDS,
                     had_cache |-> cached_data # None]]
    /\ IF /\ cached_data # None
          /\ \/ ~CanCallApi(now, last_api_call)
             \/ \E u \in Threads \ {t} :
                   pc[u] \in {"client123", "fetch126", "latest131"}
       THEN /\ pc' = [pc EXCEPT ![t] = "progress111"]
            /\ lock' = lock
       ELSE /\ pc' = [pc EXCEPT ![t] = "client123"]
            /\ lock' = None
    /\ UNCHANGED << now, ticks, calls, dexcom, last_api_call, cached_data,
                    last_error, last_error_time, glucose_data, exc, ret,
                    upstream, last_fetch, fetched >>
    /\ UNCHANGED outside

\* mutant of CheckRateLimit: the lock stays held on the way to the upstream
\* fetch
CheckRateLimit_KeepLock(t) ==
    /\ pc[t] = "check109"
    /\ lock = Some(t)
    /\ entry' = [entry EXCEPT ![t] =
                    [checked |-> TRUE,
                     limited |-> /\ last_api_call # None
                                 /\ now - Get(last_api_call) < MIN_API_INTERVAL_SECONDS,
                     had_cache |-> cached_data # None]]
    /\ IF ~CanCallApi(now, last_api_call) /\ cached_data # None
       THEN pc' = [pc EXCEPT ![t] = "progress111"]
       ELSE pc' = [pc EXCEPT ![t] = "client123"]
    /\ lock' = lock
    /\ UNCHANGED << now, ticks, calls, dexcom, last_api_call, cached_data,
                    last_error, last_error_time, glucose_data, exc, ret,
                    upstream, last_fetch, fetched >>
    /\ UNCHANGED outside

\* mutant of CheckRateLimit: a rate-limited call takes the cached return
\* whether or not a reading is cached
CheckRateLimit_Strict(t) ==
    /\ pc[t] = "check109"
    /\ lock = Some(t)
    /\ entry' = [entry EXCEPT ![t] =
                    [checked |-> TRUE,
                     limited |-> /\ last_api_call # None
                                 /\ now - Get(last_api_call) < MIN_API_INTERVAL_SECONDS,
                     had_cache |-> cached_data # None]]
    /\ IF ~CanCallApi(now, last_api_call)
       THEN /\ pc' = [pc EXCEPT ![t] = "progress111"]
            /\ lock' = lock
       ELSE /\ pc' = [pc EXCEPT ![t] = "client123"]
            /\ lock' = None
    /\ UNCHANGED << now, ticks, calls, dexcom, last_api_call, cached_data,
                    last_error, last_error_time, glucose_data, exc, ret,
                    upstream, last_fetch, fetched >>
    /\ UNCHANGED outside

\* lines 109-110, holding the lock: the rate-limit check
CheckRateLimit(t) ==
    /\ pc[t] = "check109"
    /\ lock = Some(t)
    /\ entry' = [entry EXCEPT ![t] =
                    [checked |-> TRUE,
                     limited |-> /\ last_api_call # None
                                 /\ now - Get(last_api_call) < MIN_API_INTERVAL_SECONDS,
                     had_cache |-> cached_data # None]]
    /\ IF ~CanCallApi(now, last_api_call)
       THEN IF cached_data # None
            THEN /\ pc' = [pc EXCEPT ![t] = "progress111"]
                 /\ lock' = lock
            ELSE \* line 119: rate limited but no cached data, allow the call
                 /\ pc' = [pc EXCEPT ![t] = "client123"]
                 /\ lock' = None
       ELSE /\ pc' = [pc EXCEPT ![t] = "client123"]
            /\ lock' = None
    /\ UNCHANGED << now, ticks, calls, dexcom, last_api_call, cached_data,
                    last_error, last_error_time, glucose_data, exc, ret,
                    upstream, last_fetch, fetched >>
    /\ UNCHANGED outside

\* mutant of ReturnCached: the cached return leaves the lock held
ReturnCached_KeepLock(t) ==
    /\ pc[t] = "progress111"
    /\ lock = Some(t)
    /\ ret' = [ret EXCEPT ![t] =
                  Return(cached_data, RefreshProgress(now, last_api_call))]
    /\ pc' = [pc EXCEPT ![t] = "done"]
    /\ lock' = lock
    /\ UNCHANGED << now, ticks, calls, dexcom, last_api_call, cached_data,
                    last_error, last_error_time, glucose_data, exc, entry,
                    upstream, last_fetch, fetched >>
    /\ UNCHANGED outside

\* lines 111-117, holding the lock: return self._cached_data, progress
ReturnCached(t) ==
    /\ pc[t] = "progress111"
    /\ lock = Some(t)
    /\ ret' = [ret EXCEPT ![t] =
                  Return(cached_data, RefreshProgress(now, last_api_call))]
    /\ pc' = [pc EXCEPT ![t] = "done"]
    /\ lock' = None
    /\ UNCHANGED << now, ticks, calls, dexcom, last_api_call, cached_data,
                    last_error, last_error_time, glucose_data, exc, entry,
                    upstream, last_fetch, fetched >>
    /\ UNCHANGED outside

\* line 123: dexcom = self._get_dexcom_client(); the first use constructs the
\* client (a login at the upstream), which may raise
GetDexcomClient(t) ==
    /\ pc[t] = "client123"
    /\ \/ /\ dexcom' = TRUE
          /\ pc' = [pc EXCEPT ![t] = "fetch126"]
          /\ UNCHANGED << exc, upstream >>
       \/ /\ ~dexcom
          /\ \E msg \in ErrorMessages :
                /\ exc' = [exc EXCEPT ![t] = Some(msg)]
                /\ upstream' = [upstream EXCEPT ![t] =
                                   Append(@, UpCall("login", Some(msg), << >>))]
          /\ pc' = [pc EXCEPT ![t] = "except184"]
          /\ UNCHANGED dexcom
    /\ UNCHANGED << now, ticks, calls, lock, last_api_call, cached_data,
                    last_error, last_error_time, glucose_data, ret, entry,
                    last_fetch, fetched >>
    /\ UNCHANGED outside

\* mutant of FetchRecent: the fallback is also taken when only one reading
\* came back
FetchRecent_FallbackIfSingle(t) ==
    /\ pc[t] = "fetch126"
    /\ last_fetch' = Some(now)
    /\ \/ \E msg \in ErrorMessages :
             /\ exc' = [exc EXCEPT ![t] = Some(msg)]
             /\ upstream' = [upstream EXCEPT ![t] =
                                Append(@, UpCall("recent", Some(msg), << >>))]
             /\ pc' = [pc EXCEPT ![t] = "except184"]
             /\ UNCHANGED glucose_data
       \/ \E readings \in RecentResponses :
             /\ upstream' = [upstream EXCEPT ![t] =
                                Append(@, UpCall("recent", None, readings))]
             /\ IF Len(readings) < 2
                THEN /\ pc' = [pc EXCEPT ![t] = "latest131"]
                     /\ UNCHANGED glucose_data
                ELSE /\ glucose_data' = [glucose_data EXCEPT ![t] =
                                            Some(MakeGlucoseData(Measured(readings, now)))]
                     /\ pc' = [pc EXCEPT ![t] = "lock164"]
             /\ UNCHANGED exc
    /\ UNCHANGED << now, ticks, calls, dexcom, lock, last_api_call,
                    cached_data, last_error, last_error_time, ret, entry,
                    fetched >>
    /\ UNCHANGED outside

\* line 126: readings = dexcom.get_glucose_readings(minutes=30, max_count=2),
\* then lines 128 and 141-161 on the thread's locals
FetchRecent(t) ==
    /\ pc[t] = "fetch126"
    /\ last_fetch' = Some(now)
    /\ \/ \E msg \in ErrorMessages :
             /\ exc' = [exc EXCEPT ![t] = Some(msg)]
             /\ upstream' = [upstream EXCEPT ![t] =
                                Append(@, UpCall("recent", Some(msg), << >>))]
             /\ pc' = [pc EXCEPT ![t] = "except184"]
             /\ UNCHANGED glucose_data
       \/ \E readings \in RecentResponses :
             /\ upstream' = [upstream EXCEPT ![t] =
                                Append(@, UpCall("recent", None, readings))]
             /\ IF readings = << >>
                THEN /\ pc' = [pc EXCEPT ![t] = "latest131"]
                     /\ UNCHANGED glucose_data
                ELSE /\ glucose_data' = [glucose_data EXCEPT ![t] =
                                            Some(MakeGlucoseData(Measured(readings, now)))]
                     /\ pc' = [pc EXCEPT ![t] = "lock164"]
             /\ UNCHANGED exc
    /\ UNCHANGED << now, ticks, calls, dexcom, lock, last_api_call,
                    cached_data, last_error, last_error_time, ret, entry,
                    fetched >>
    /\ UNCHANGED outside

\* line 131: latest = dexcom.get_latest_glucose_reading(), then lines 132-135
\* and 141-161 with readings = [latest]
FetchLatest(t) ==
    /\ pc[t] = "latest131"
    /\ \/ \E msg \in ErrorMessages :
             /\ exc' = [exc EXCEPT ![t] = Some(msg)]
             /\ upstream' = [upstream EXCEPT ![t] =
                                Append(@, UpCall("latest", Some(msg), << >>))]
             /\ pc' = [pc EXCEPT ![t] = "except184"]
             /\ UNCHANGED glucose_data
       \/ \E latest \in LatestResponses :
             /\ upstream' = [upstream EXCEPT ![t] =
                                Append(@, UpCall("latest", None, latest))]
             /\ IF latest # None
                THEN /\ glucose_data' = [glucose_data EXCEPT ![t] =
                                            Some(MakeGlucoseData(Measured(latest, now)))]
                     /\ pc' = [pc EXCEPT ![t] = "lock164"]
                ELSE /\ pc' = [pc EXCEPT ![t] = "lock136"]
                     /\ UNCHANGED glucose_data
             /\ UNCHANGED exc
    /\ UNCHANGED << now, ticks, calls, dexcom, lock, last_api_call,
                    cached_data, last_error, last_error_time, ret, entry,
                    last_fetch, fetched >>
    /\ UNCHANGED outside

\* mutant of StoreEmpty: the call time is not recorded
StoreEmpty_NoTimestamp(t) ==
    /\ pc[t] = "store138"
    /\ lock = Some(t)
    /\ lock' = None
    /\ ret' = [ret EXCEPT ![t] = Return(None, 0)]
    /\ pc' = [pc EXCEPT ![t] = "done"]
    /\ UNCHANGED << now, ticks, calls, dexcom, last_api_call, cached_data,
                    last_error, last_error_time, glucose_data, exc, entry,
                    upstream, last_fetch, fetched >>
    /\ UNCHANGED outside

\* lines 136-139, holding the lock: no reading at all; the call time is
\* still recorded, then return None, 0
StoreEmpty(t) ==
    /\ pc[t] = "store138"
    /\ lock = Some(t)
    /\ last_api_call' = Some(now)
    /\ lock' = None
    /\ ret' = [ret EXCEPT ![t] = Return(None, 0)]
    /\ pc' = [pc EXCEPT ![t] = "done"]
    /\ UNCHANGED << now, ticks, calls, dexcom, cached_data, last_error,
                    last_error_time, glucose_data, exc, entry, upstream,
                    last_fetch, fetched >>
    /\ UNCHANGED outside

\* mutant of StoreSuccess: the reading is cached without recording the call
\* time
StoreSuccess_NoTimestamp(t) ==
    /\ pc[t] = "store165"
    /\ lock = Some(t)
    /\ cached_data' = glucose_data[t]
    /\ last_error' = None
    /\ last_error_time' = None
    /\ lock' = None
    /\ ret' = [ret EXCEPT ![t] = Return(glucose_data[t], 0)]
    /\ glucose_data' = [glucose_data EXCEPT ![t] = None]
    /\ fetched' = Some([time |-> now, data |-> glucose_data[t]])
    /\ pc' = [pc EXCEPT ![t] = "done"]
    /\ UNCHANGED << now, ticks, calls, dexcom, last_api_call, exc, entry, upstream,
                    last_fetch >>
    /\ UNCHANGED outside

\* mutant of StoreSuccess: the error time is not cleared
StoreSuccess_KeepErrorTime(t) ==
    /\ pc[t] = "store165"
    /\ lock = Some(t)
    /\ cached_data' = glucose_data[t]
    /\ last_api_call' = Some(now)
    /\ last_error' = None
    /\ lock' = None
    /\ ret' = [ret EXCEPT ![t] = Return(glucose_data[t], 0)]
    /\ glucose_data' = [glucose_data EXCEPT ![t] = None]
    /\ fetched' = Some([time |-> now, data |-> glucose_data[t]])
    /\ pc' = [pc EXCEPT ![t] = "done"]
    /\ UNCHANGED << now, ticks, calls, dexcom, exc, entry, upstream,
                    last_fetch, last_error_time >>
    /\ UNCHANGED outside

\* lines 164-180, holding the lock: update the cache and the call time,
\* clear the error, then return glucose_data, 0
StoreSuccess(t) ==
    /\ pc[t] = "store165"
    /\ lock = Some(t)
    /\ cached_data' = glucose_data[t]
    /\ last_api_call' = Some(now)
    /\ last_error' = None
    /\ last_error_time' = None
    /\ lock' = None
    /\ ret' = [ret EXCEPT ![t] = Return(glucose_data[t], 0)]
    /\ glucose_data' = [glucose_data EXCEPT ![t] = None]
    /\ fetched' = Some([time |-> now, data |-> glucose_data[t]])
    /\ pc' = [pc EXCEPT ![t] = "done"]
    /\ UNCHANGED << now, ticks, calls, dexcom, exc, entry, upstream,
                    last_fetch >>
    /\ UNCHANGED outside

\* line 184, not holding the lock: self._last_error = str(e)
RecordError(t) ==
    /\ pc[t] = "except184"
    /\ last_error' = exc[t]
    /\ pc' = [pc EXCEPT ![t] = "except185"]
    /\ UNCHANGED << now, ticks, calls, dexcom, lock, last_api_call,
                    cached_data, last_error_time, glucose_data, exc, ret,
                    entry, upstream, last_fetch, fetched >>
    /\ UNCHANGED outside

\* mutant of RecordErrorTime: a failure also records the call time (back-off)
RecordErrorTime_BackOff(t) ==
    /\ pc[t] = "except185"
    /\ last_error_time' = Some(now)
    /\ last_api_call' = Some(now)
    /\ pc' = [pc EXCEPT ![t] = "lock188"]
    /\ UNCHANGED << now, ticks, calls, dexcom, lock,
                    cached_data, last_error, glucose_data, exc, ret, entry,
                    upstream, last_fetch, fetched >>
    /\ UNCHANGED outside

\* line 185, not holding the lock: self._last_error_time = datetime.now()
RecordErrorTime(t) ==
    /\ pc[t] = "except185"
    /\ last_error_time' = Some(now)
    /\ pc' = [pc EXCEPT ![t] = "lock188"]
    /\ UNCHANGED << now, ticks, calls, dexcom, lock, last_api_call,
                    cached_data, last_error, glucose_data, exc, ret, entry,
                    upstream, last_fetch, fetched >>
    /\ UNCHANGED outside

\* mutant of FallbackOrRaise: the error is re-raised although a reading is
\* cached
FallbackOrRaise_AlwaysRaise(t) ==
    /\ pc[t] = "fallback189"
    /\ lock = Some(t)
    /\ ret' = [ret EXCEPT ![t] = Raise(Get(exc[t]))]
    /\ exc' = [exc EXCEPT ![t] = None]
    /\ lock' = None
    /\ pc' = [pc EXCEPT ![t] = "done"]
    /\ UNCHANGED << now, ticks, calls, dexcom, last_api_call, cached_data,
                    last_error, last_error_time, glucose_data, entry,
                    upstream, last_fetch, fetched >>
    /\ UNCHANGED outside

\* lines 188-193, holding the lock: return the cached reading if there is
\* one, else leave the with block and re-raise
FallbackOrRaise(t) ==
    /\ pc[t] = "fallback189"
    /\ lock = Some(t)
    /\ ret' = [ret EXCEPT ![t] =
                  IF cached_data # None
                  THEN Return(cached_data, RefreshProgress(now, last_api_call))
                  ELSE Raise(Get(exc[t]))]
    /\ exc' = [exc EXCEPT ![t] = None]
    /\ lock' = None
    /\ pc' = [pc EXCEPT ![t] = "done"]
    /\ UNCHANGED << now, ticks, calls, dexcom, last_api_call, cached_data,
                    last_error, last_error_time, glucose_data, entry,
                    upstream, last_fetch, fetched >>
    /\ UNCHANGED outside

Step(t) ==
    \/ Call(t)
    \/ AcquireLock(t)
    \/ CheckRateLimit(t)
    \/ ReturnCached(t)
    \/ GetDexcomClient(t)
    \/ FetchRecent(t)
    \/ FetchLatest(t)
    \/ StoreEmpty(t)
    \/ StoreSuccess(t)
    \/ RecordError(t)
    \/ RecordErrorTime(t)
    \/ FallbackOrRaise(t)

Next == Tick \/ \E t \in Threads : Step(t)

Spec == Init /\ [][Next]_vars

(* ------------------------------------------------------------------ *)
(* get_statistics: called at main.py lines 315 and 357, not defined in   *)
(* dexcom_client.py; modelled from the specification                    *)
(* ------------------------------------------------------------------ *)

\* largest counter values explored
MaxCount == 7
MaxErrors == 1

\* mutant of CacheHitRate: the share of upstream calls instead of cache hits
CacheHitRate_ApiShare(c) ==
    LET total == Get(c.total_api_calls) + Get(c.cache_hits)
    IN  IF total = 0 THEN 0 ELSE (100 * Get(c.total_api_calls)) \div total

\* cacheHits / (totalApiCalls + cacheHits) as a percentage (whole percent),
\* 0 when nothing was counted
CacheHitRate(c) ==
    LET total == Get(c.total_api_calls) + Get(c.cache_hits)
    IN  IF total = 0 THEN 0 ELSE (100 * Get(c.cache_hits)) \div total

\* getStatistics() -> {totalApiCalls, cacheHits, apiErrors, cacheHitRatePercent}
Statistics(c) ==
    [ total_api_calls |-> Get(c.total_api_calls),
      cache_hits |-> Get(c.cache_hits),
      api_errors |-> Get(c.api_errors),
      cache_hit_rate |-> CacheHitRate(c) ]

GetStatistics ==
    /\ statistics' = Some(Statistics(counters))
    /\ UNCHANGED << client, mqtt, counters, status, fmt_in, payload >>

\* an instance whose counters hold any values up to the bounds
InitStats ==
    /\ InitClient
    /\ counters \in [ total_api_calls : { Some(n) : n \in 0..MaxCount },
                      cache_hits : { Some(n) : n \in 0..MaxCount },
                      api_errors : { Some(n) : n \in 0..MaxErrors } ]
    /\ statistics = None
    /\ status = NoStatus
    /\ fmt_in = None
    /\ payload = None
    /\ mqtt = NoMqtt

NextStats == GetStatistics

SpecStats == InitStats /\ [][NextStats]_vars

(* ------------------------------------------------------------------ *)
(* The introspection calls (lines 52-68)                               *)
(* ------------------------------------------------------------------ *)

\* mutant of SecondsRemaining: the remaining time is not clamped at 0
SecondsRemaining_NoClamp(t_now, t_last) ==
    IF t_last = None THEN 0
    ELSE MIN_API_INTERVAL_SECONDS - Elapsed(t_now, t_last)

\* lines 55-60: int(max(0, MIN_API_INTERVAL_SECONDS - elapsed)), in whole
\* seconds
SecondsRemaining(t_now, t_last) ==
    IF t_last = None THEN 0
    ELSE Max(0, MIN_API_INTERVAL_SECONDS - Elapsed(t_now, t_last))

\* get_seconds_until_next_call: "with self._lock:" and the body in one step
GetSecondsUntilNextCall ==
    /\ lock = None
    /\ status' = [op |-> "seconds", value |-> SecondsRemaining(now, last_api_call)]
    /\ UNCHANGED << client, mqtt, counters, statistics, fmt_in, payload >>

\* get_refresh_progress: "with self._lock:" and the body in one step
GetRefreshProgress ==
    /\ lock = None
    /\ status' = [op |-> "progress", value |-> RefreshProgress(now, last_api_call)]
    /\ UNCHANGED << client, mqtt, counters, statistics, fmt_in, payload >>

\* largest clock reading explored for the introspection calls
MaxElapsed == 310

\* the state after one call at second 0 that got nothing from the upstream:
\* a call time is recorded and nothing is cached
AfterEmptyResult ==
    /\ calls = 1
    /\ dexcom = TRUE
    /\ last_api_call = Some(0)
    /\ last_fetch = Some(0)
    /\ pc = [t \in Threads |-> IF t = "t1" THEN "done" ELSE "idle"]
    /\ ret = [t \in Threads |-> IF t = "t1" THEN Return(None, 0) ELSE NoRet]
    /\ entry = [t \in Threads |->
                  IF t = "t1"
                  THEN [checked |-> TRUE, limited |-> FALSE, had_cache |-> FALSE]
                  ELSE NoEntry]
    /\ upstream = [t \in Threads |->
                     IF t = "t1"
                     THEN << UpCall("recent", None, << >>),
                             UpCall("latest", None, None) >>
                     ELSE << >>]

\* a fresh client
NeverCalled ==
    /\ calls = 0
    /\ dexcom = FALSE
    /\ last_api_call = None
    /\ last_fetch = None
    /\ pc = [t \in Threads |-> "idle"]
    /\ ret = [t \in Threads |-> NoRet]
    /\ entry = [t \in Threads |-> NoEntry]
    /\ upstream = [t \in Threads |-> << >>]

\* the introspection calls at every second up to MaxElapsed, on a fresh
\* client and on one whose call time 0 is recorded
InitClock ==
    /\ InitOutside
    /\ now \in 0..MaxElapsed
    /\ ticks = 0
    /\ lock = None
    /\ cached_data = None
    /\ last_error = None
    /\ last_error_time = None
    /\ glucose_data = [t \in Threads |-> None]
    /\ exc = [t \in Threads |-> None]
    /\ fetched = None
    /\ (NeverCalled \/ AfterEmptyResult)

NextClock == GetSecondsUntilNextCall \/ GetRefreshProgress

SpecClock == InitClock /\ [][NextClock]_vars

(* ------------------------------------------------------------------ *)
(* The /glucose endpoint (main.py)                                     *)
(* ------------------------------------------------------------------ *)

\* main.py lines 134-157: the handler registered for DexcomAwtrixError
\* answers 401 for DexcomAuthError, 503 for DexcomNoDataError and 500 for the
\* rest; an exception of any other class has no handler and the framework
\* answers 500
ExceptionStatus(class) ==
    CASE class = "DexcomAuthError" -> 401
      [] class = "DexcomNoDataError" -> 503
      [] class = "DexcomAwtrixError" -> 500
      [] OTHER -> 500

\* main.py lines 255-263: get_current_reading is called outside any try
\* block, so what it raises (the upstream library's exception, re-raised at
\* dexcom_client.py line 193) propagates as it is; a null reading raises
\* DexcomNoDataError; otherwise the formatted reading is answered
GlucoseEndpointStatus(r) ==
    IF r.kind = "raise" THEN ExceptionStatus("Exception")
    ELSE IF r.data = None THEN ExceptionStatus("DexcomNoDataError")
    ELSE 200

(* ------------------------------------------------------------------ *)
(* The display formatter (awtrix_formatter.py)                         *)
(* ------------------------------------------------------------------ *)

\* Texts are sequences of one-character strings.
Digit(d) == << "0", "1", "2", "3", "4", "5", "6", "7", "8", "9" >>[d + 1]

HexDigit(d) ==
    << "0", "1", "2", "3", "4", "5", "6", "7",
       "8", "9", "a", "b", "c", "d", "e", "f" >>[d + 1]

RECURSIVE NatStr(_)
NatStr(n) == IF n < 10 THEN << Digit(n) >>
             ELSE NatStr(n \div 10) \o << Digit(n % 10) >>

\* str(n) of an integer
Str(n) == IF n < 0 THEN << "-" >> \o NatStr(-n) ELSE NatStr(n)

\* "{:02x}" of a colour component
Hex02(n) == IF n < 16 THEN << "0", HexDigit(n) >>
            ELSE IF n < 256 THEN << HexDigit(n \div 16), HexDigit(n % 16) >>
            ELSE << HexDigit(n \div 256), HexDigit((n \div 16) % 16),
                    HexDigit(n % 16) >>

\* lines 40-42: rgb_to_hex
RgbToHex(rgb) == << "#" >> \o Hex02(rgb[1]) \o Hex02(rgb[2]) \o Hex02(rgb[3])

\* Settings.parse_color: the configured colour as an RGB triple. The method
\* and the colour settings are used by the formatter and defined nowhere in
\* the sources; a configured colour is kept as its RGB triple.
ParseColor(c) == c

\* the eight configured colours, pairwise distinct
Palette ==
    [ color_critical_low |-> << 255, 0, 0 >>,
      color_low          |-> << 255, 0, 128 >>,
      color_normal       |-> << 0, 255, 0 >>,
      color_high         |-> << 255, 255, 0 >>,
      color_very_high    |-> << 255, 128, 0 >>,
      color_delta        |-> << 255, 255, 255 >>,
      color_progress_bar |-> << 0, 255, 255 >>,
      color_progress_bg  |-> << 32, 32, 32 >> ]

\* Settings with glucose thresholds th = <<critical_low, low, high,
\* very_high>> and delta thresholds dth = <<stable, rapid>>
SettingsOf(th, dth) ==
    [ glucose_critical_low   |-> th[1],
      glucose_low            |-> th[2],
      glucose_high           |-> th[3],
      glucose_very_high      |-> th[4],
      delta_stable_threshold |-> dth[1],
      delta_rapid_threshold  |-> dth[2],
      awtrix_duration        |-> 10,
      awtrix_lifetime        |-> 120,
      color_critical_low     |-> Palette.color_critical_low,
      color_low              |-> Palette.color_low,
      color_normal           |-> Palette.color_normal,
      color_high             |-> Palette.color_high,
      color_very_high        |-> Palette.color_very_high,
      color_delta            |-> Palette.color_delta,
      color_progress_bar     |-> Palette.color_progress_bar,
      color_progress_bg      |-> Palette.color_progress_bg ]

\* lines 6-35 of config.py: the Settings the application defines, with
\* thresholds th; it has no colour setting, no parse_color and no
\* delta_stable_threshold or delta_rapid_threshold
AppSettings(th) ==
    [ glucose_critical_low |-> th[1],
      glucose_low          |-> th[2],
      glucose_high         |-> th[3],
      glucose_very_high    |-> th[4],
      delta_fast_threshold |-> 20,
      awtrix_duration      |-> 10,
      awtrix_lifetime      |-> 120 ]

\* the colour settings format_for_awtrix hands to settings.parse_color on
\* every path (lines 18-26, 165-167)
ColorAttributes ==
    { "color_critical_low", "color_low", "color_normal", "color_high",
      "color_very_high", "color_delta", "color_progress_bar",
      "color_progress_bg" }

\* reading an attribute the Settings object does not have raises
\* AttributeError
RaisesAttributeError(settings) == ~(ColorAttributes \subseteq DOMAIN settings)

\* mutant of GetColorForGlucose: the low band includes the low threshold
GetColorForGlucose_LowInclusive(value, settings) ==
    IF value < settings.glucose_critical_low
    THEN ParseColor(settings.color_critical_low)
    ELSE IF value <= settings.glucose_low
    THEN ParseColor(settings.color_low)
    ELSE IF value <= settings.glucose_high
    THEN ParseColor(settings.color_normal)
    ELSE IF value <= settings.glucose_very_high
    THEN ParseColor(settings.color_high)
    ELSE ParseColor(settings.color_very_high)

\* lines 7-26: get_color_for_glucose
GetColorForGlucose(value, settings) ==
    IF value < settings.glucose_critical_low
    THEN ParseColor(settings.color_critical_low)
    ELSE IF value < settings.glucose_low
    THEN ParseColor(settings.color_low)
    ELSE IF value <= settings.glucose_high
    THEN ParseColor(settings.color_normal)
    ELSE IF value <= settings.glucose_very_high
    THEN ParseColor(settings.color_high)
    ELSE ParseColor(settings.color_very_high)

\* mutant of GetBackgroundColor: the very-high threshold itself gets the
\* background
GetBackgroundColor_Inclusive(value, settings) ==
    IF value < settings.glucose_critical_low THEN Some(<< 64, 0, 0 >>)
    ELSE IF value >= settings.glucose_very_high THEN Some(<< 64, 32, 0 >>)
    ELSE None

\* lines 29-37: get_background_color
GetBackgroundColor(value, settings) ==
    IF value < settings.glucose_critical_low THEN Some(<< 64, 0, 0 >>)
    ELSE IF value > settings.glucose_very_high THEN Some(<< 64, 32, 0 >>)
    ELSE None

\* mutant of BlinkText: the critical-low threshold itself blinks
BlinkText_Inclusive(value, settings) ==
    IF value <= settings.glucose_critical_low THEN Some(500) ELSE None

\* lines 213-215: blinkText is 500 for a critical low and stays unset
\* otherwise
BlinkText(value, settings) ==
    IF value < settings.glucose_critical_low THEN Some(500) ELSE None

\* the draw commands {"dl": [...]}, {"dp": [...]} and {"dt": [...]}
Dl(x0, y0, x1, y1, color) == [dl |-> << x0, y0, x1, y1, color >>]
Dp(x, y, color) == [dp |-> << x, y, color >>]
Dt(x, y, text, color) == [dt |-> << x, y, text, color >>]

Abs(n) == IF n < 0 THEN -n ELSE n

\* mutant of GetArrowDrawing: a delta equal to the stable threshold is not
\* stable
GetArrowDrawing_StableExclusive(delta, settings, hex_color, x) ==
    LET abs_delta == IF delta # None THEN Abs(Get(delta)) ELSE 0
    IN  IF delta = None \/ abs_delta < settings.delta_stable_threshold
        THEN [draw |-> << Dl(x, 3, x + 3, 3, hex_color),
                          Dp(x + 4, 3, hex_color),
                          Dp(x + 3, 2, hex_color),
                          Dp(x + 3, 4, hex_color) >>,
              width |-> 5]
        ELSE IF abs_delta > settings.delta_rapid_threshold
        THEN IF Get(delta) > 0
             THEN [draw |-> << Dl(x + 2, 2, x + 2, 6, hex_color),
                               Dp(x + 2, 1, hex_color),
                               Dp(x + 1, 2, hex_color),
                               Dp(x + 3, 2, hex_color),
                               Dp(x, 3, hex_color),
                               Dp(x + 4, 3, hex_color) >>,
                   width |-> 5]
             ELSE [draw |-> << Dl(x + 2, 0, x + 2, 5, hex_color),
                               Dp(x + 2, 6, hex_color),
                               Dp(x + 1, 5, hex_color),
                               Dp(x + 3, 5, hex_color),
                               Dp(x, 4, hex_color),
                               Dp(x + 4, 4, hex_color) >>,
                   width |-> 5]
        ELSE IF Get(delta) > 0
             THEN [draw |-> << Dp(x, 5, hex_color),
                               Dp(x + 1, 4, hex_color),
                               Dp(x + 2, 3, hex_color),
                               Dp(x + 3, 2, hex_color),
                               Dp(x + 4, 1, hex_color),
                               Dp(x + 4, 0, hex_color),
                               Dp(x + 3, 0, hex_color),
                               Dp(x + 4, 2, hex_color) >>,
                   width |-> 5]
             ELSE [draw |-> << Dp(x, 1, hex_color),
                               Dp(x + 1, 2, hex_color),
                               Dp(x + 2, 3, hex_color),
                               Dp(x + 3, 4, hex_color),
                               Dp(x + 4, 5, hex_color),
                               Dp(x + 4, 6, hex_color),
                               Dp(x + 3, 6, hex_color),
                               Dp(x + 4, 4, hex_color) >>,
                   width |-> 5]

\* mutant of GetArrowDrawing: the tip of the horizontal arrow is one column
\* further right
GetArrowDrawing_LongTip(delta, settings, hex_color, x) ==
    LET abs_delta == IF delta # None THEN Abs(Get(delta)) ELSE 0
    IN  IF delta = None \/ abs_delta <= settings.delta_stable_threshold
        THEN [draw |-> << Dl(x, 3, x + 3, 3, hex_color),
                          Dp(x + 5, 3, hex_color),
                          Dp(x + 3, 2, hex_color),
                          Dp(x + 3, 4, hex_color) >>,
              width |-> 5]
        ELSE IF abs_delta > settings.delta_rapid_threshold
        THEN IF Get(delta) > 0
             THEN [draw |-> << Dl(x + 2, 2, x + 2, 6, hex_color),
                               Dp(x + 2, 1, hex_color),
                               Dp(x + 1, 2, hex_color),
                               Dp(x + 3, 2, hex_color),
                               Dp(x, 3, hex_color),
                               Dp(x + 4, 3, hex_color) >>,
                   width |-> 5]
             ELSE [draw |-> << Dl(x + 2, 0, x + 2, 5, hex_color),
                               Dp(x + 2, 6, hex_color),
                               Dp(x + 1, 5, hex_color),
                               Dp(x + 3, 5, hex_color),
                               Dp(x, 4, hex_color),
                               Dp(x + 4, 4, hex_color) >>,
                   width |-> 5]
        ELSE IF Get(delta) > 0
             THEN [draw |-> << Dp(x, 5, hex_color),
                               Dp(x + 1, 4, hex_color),
                               Dp(x + 2, 3, hex_color),
                               Dp(x + 3, 2, hex_color),
                               Dp(x + 4, 1, hex_color),
                               Dp(x + 4, 0, hex_color),
                               Dp(x + 3, 0, hex_color),
                               Dp(x + 4, 2, hex_color) >>,
                   width |-> 5]
             ELSE [draw |-> << Dp(x, 1, hex_color),
                               Dp(x + 1, 2, hex_color),
                               Dp(x + 2, 3, hex_color),
                               Dp(x + 3, 4, hex_color),
                               Dp(x + 4, 5, hex_color),
                               Dp(x + 4, 6, hex_color),
                               Dp(x + 3, 6, hex_color),
                               Dp(x + 4, 4, hex_color) >>,
                   width |-> 5]

\* lines 45-115: get_arrow_drawing, the draw commands and the arrow width
GetArrowDrawing(delta, settings, hex_color, x) ==
    LET abs_delta == IF delta # None THEN Abs(Get(delta)) ELSE 0
    IN  IF delta = None \/ abs_delta <= settings.delta_stable_threshold
        THEN [draw |-> << Dl(x, 3, x + 3, 3, hex_color),
                          Dp(x + 4, 3, hex_color),
                          Dp(x + 3, 2, hex_color),
                          Dp(x + 3, 4, hex_color) >>,
              width |-> 5]
        ELSE IF abs_delta > settings.delta_rapid_threshold
        THEN IF Get(delta) > 0
             THEN [draw |-> << Dl(x + 2, 2, x + 2, 6, hex_color),
                               Dp(x + 2, 1, hex_color),
                               Dp(x + 1, 2, hex_color),
                               Dp(x + 3, 2, hex_color),
                               Dp(x, 3, hex_color),
                               Dp(x + 4, 3, hex_color) >>,
                   width |-> 5]
             ELSE [draw |-> << Dl(x + 2, 0, x + 2, 5, hex_color),
                               Dp(x + 2, 6, hex_color),
                               Dp(x + 1, 5, hex_color),
                               Dp(x + 3, 5, hex_color),
                               Dp(x, 4, hex_color),
                               Dp(x + 4, 4, hex_color) >>,
                   width |-> 5]
        ELSE IF Get(delta) > 0
             THEN [draw |-> << Dp(x, 5, hex_color),
                               Dp(x + 1, 4, hex_color),
                               Dp(x + 2, 3, hex_color),
                               Dp(x + 3, 2, hex_color),
                               Dp(x + 4, 1, hex_color),
                               Dp(x + 4, 0, hex_color),
                               Dp(x + 3, 0, hex_color),
                               Dp(x + 4, 2, hex_color) >>,
                   width |-> 5]
             ELSE [draw |-> << Dp(x, 1, hex_color),
                               Dp(x + 1, 2, hex_color),
                               Dp(x + 2, 3, hex_color),
                               Dp(x + 3, 4, hex_color),
                               Dp(x + 4, 5, hex_color),
                               Dp(x + 4, 6, hex_color),
                               Dp(x + 3, 6, hex_color),
                               Dp(x + 4, 4, hex_color) >>,
                   width |-> 5]

\* lines 121-129: the width a character adds, with the pixel after it
CharWidth(char) == (IF char \in {"1", "i", "l", ":", " "} THEN 2 ELSE 4) + 1

RECURSIVE SumCharWidths(_)
SumCharWidths(text) ==
    IF text = << >> THEN 0
    ELSE CharWidth(Head(text)) + SumCharWidths(Tail(text))

\* mutant of EstimateTextWidth: the pixel after the last character is counted
EstimateTextWidth_TrailingGap(text) ==
    SumCharWidths(text)

\* lines 118-131: estimate_text_width
EstimateTextWidth(text) ==
    LET width == SumCharWidths(text)
    IN  IF width > 0 THEN width - 1 ELSE 0

\* mutant of FormatDelta: a zero delta gets no sign
FormatDelta_NoPlusForZero(delta) ==
    IF delta = None THEN << >>
    ELSE IF Get(delta) > 0 THEN << "+" >> \o Str(Get(delta))
    ELSE Str(Get(delta))

\* lines 134-141: format_delta
FormatDelta(delta) ==
    IF delta = None THEN << >>
    ELSE IF Get(delta) >= 0 THEN << "+" >> \o Str(Get(delta))
    ELSE Str(Get(delta))

\* lines 144-222: format_for_awtrix, the AwtrixResponse it returns
FormatForAwtrixResponse(reading, settings, refresh_progress) ==
    LET value == reading.value
        delta == reading.delta
        glucose_color == GetColorForGlucose(value, settings)
        delta_color == ParseColor(settings.color_delta)
        progress_color == ParseColor(settings.color_progress_bar)
        progress_bg_color == ParseColor(settings.color_progress_bg)
        glucose_hex == RgbToHex(glucose_color)
        delta_hex == RgbToHex(delta_color)
        value_str == Str(value)
        delta_str == FormatDelta(delta)
        value_width == EstimateTextWidth(value_str)
        arrow_x == value_width + 1
        arrow == GetArrowDrawing(delta, settings, glucose_hex, arrow_x)
        delta_x == arrow_x + arrow.width + 1
        draw_commands ==
            << Dt(0, 0, value_str, glucose_hex) >> \o arrow.draw
            \o (IF delta_str # << >>
                THEN << Dt(delta_x, 0, delta_str, delta_hex) >> ELSE << >>)
    IN  [ text       |-> << >>,
          color      |-> glucose_color,
          icon       |-> None,
          duration   |-> settings.awtrix_duration,
          noScroll   |-> TRUE,
          center     |-> FALSE,
          lifetime   |-> settings.awtrix_lifetime,
          draw       |-> draw_commands,
          background |-> GetBackgroundColor(value, settings),
          blinkText  |-> BlinkText(value, settings),
          progress   |-> refresh_progress,
          progressC  |-> progress_color,
          progressBC |-> progress_bg_color ]

\* texts for estimate_text_width: empty, narrow and wide characters
Texts ==
    { << >>, << "1" >>, << "i", "l" >>, << ":", " " >>, << "+", "5" >>,
      << "-", "1", "1" >>, << "a", "b" >> }

\* one call of estimate_text_width
EstimateWidth ==
    /\ \E text \in Texts :
          status' = [op |-> "width", arg |-> text,
                     value |-> EstimateTextWidth(text)]
    /\ UNCHANGED << client, mqtt, counters, statistics, fmt_in, payload >>

\* one call of format_for_awtrix on the input fmt_in: it returns the payload
\* or raises at the first settings.parse_color
FormatForAwtrix ==
    /\ fmt_in # None
    /\ IF RaisesAttributeError(Get(fmt_in).settings)
       THEN /\ status' = [op |-> "AttributeError", value |-> 0]
            /\ UNCHANGED payload
       ELSE /\ payload' = Some(FormatForAwtrixResponse(Get(fmt_in).glucose_data,
                                                       Get(fmt_in).settings,
                                                       Get(fmt_in).refresh_progress))
            /\ UNCHANGED status
    /\ UNCHANGED << client, mqtt, counters, statistics, fmt_in >>

\* a GlucoseData with value v and optional delta d
Reading(v, d) ==
    [ value |-> v,
      trend |-> None,
      delta |-> d,
      previous_value |-> IF d # None THEN Some(v - Get(d)) ELSE None,
      timestamp |-> None ]

\* glucose values on both sides of every threshold used below
GlucoseValues ==
    { 40, 54, 55, 56, 69, 70, 71, 111, 179, 180, 181, 239, 240, 241, 400 }

Deltas == { None } \cup { Some(d) : d \in { -21, -20, -6, -5, -1, 0, 1, 5, 6, 20, 21 } }

\* <<critical_low, low, high, very_high>>: the defaults of config.py, equal
\* neighbours and two mis-ordered configurations
GlucoseThresholds ==
    { << 55, 70, 180, 240 >>, << 55, 70, 70, 240 >>, << 55, 70, 180, 180 >>,
      << 70, 70, 180, 240 >>, << 70, 55, 240, 180 >>, << 240, 180, 70, 55 >> }

\* <<stable, rapid>>
DeltaThresholds == { << 5, 20 >>, << 5, 5 >>, << 0, 0 >>, << 20, 5 >> }

RefreshProgresses == { 0, 28, 100 }

\* the formatter on every combination of the inputs above
InitFormat ==
    /\ InitClient
    /\ counters = NoCounters
    /\ statistics = None
    /\ status = NoStatus
    /\ payload = None
    /\ mqtt = NoMqtt
    /\ \E v \in GlucoseValues, d \in Deltas, th \in GlucoseThresholds,
          dth \in DeltaThresholds, p \in RefreshProgresses :
          \E st \in { SettingsOf(th, dth), AppSettings(th) } :
              fmt_in = Some([ glucose_data |-> Reading(v, d),
                              settings |-> st,
                              refresh_progress |-> p ])

NextFormat == FormatForAwtrix \/ EstimateWidth

SpecFormat == InitFormat /\ [][NextFormat]_vars

\* the settings the endpoints get from get_settings(): the thresholds of
\* config.py, with the colours and delta thresholds of the formatter
DefaultSettings == SettingsOf(<< 55, 70, 180, 240 >>, << 5, 20 >>)

\* main.py line 263: the payload /glucose answers for a returned reading
GlucoseEndpointResponse(r, settings) ==
    FormatForAwtrixResponse(Get(r.data), settings, r.progress)

\* main.py lines 317-325, get_glucose_status: can_refresh_now is
\* get_seconds_until_next_call() == 0
CanRefreshNow(t_now, t_last) == SecondsRemaining(t_now, t_last) = 0

\* concurrent callers with the clock standing still, every caller's next step
\* eventually taken: a caller waiting at a "with self._lock:" proceeds once
\* the lock stays free, and every upstream call returns or raises
NextFair == \E t \in Threads : Step(t)

SpecFair == Init /\ [][NextFair]_vars /\ \A t \in Threads : WF_vars(Step(t))

\* a single caller
NextSingle == Tick \/ Step("t1")

SpecSingle == Init /\ [][NextSingle]_vars

(* ------------------------------------------------------------------ *)
(* Vocabulary of the properties                                        *)
(* ------------------------------------------------------------------ *)

\* thread t takes a step of get_current_reading
Moves(t) == pc'[t] # pc[t]

\* thread t's call returns or raises in this step
Completes(t) == pc[t] # "done" /\ pc'[t] = "done"

LastUp(t) == upstream[t][Len(upstream[t])]

\* the upstream raised in t's current call
UpstreamRaised(t) == upstream[t] # << >> /\ LastUp(t).raised # None

\* both get_glucose_readings and get_latest_glucose_reading returned nothing
BothEmpty(t) ==
    upstream[t] = << UpCall("recent", None, << >>), UpCall("latest", None, None) >>

\* t's current call obtained at least one reading from the upstream
GotReadings(t) ==
    /\ upstream[t] # << >>
    /\ LastUp(t).raised = None
    /\ LastUp(t).readings # << >>

\* the reading t's current call built from what the upstream returned:
\* its local glucose_data until stored, the returned reading afterwards
Built(t) == IF pc[t] = "done" THEN ret[t].data ELSE glucose_data[t]

(* ------------------------------------------------------------------ *)
(* C1                                                                  *)
(* ------------------------------------------------------------------ *)

\* C1: any two upstream fetch calls (get_glucose_readings) made by the cache
\* are at least MIN_API_INTERVAL_SECONDS apart.  Stated for a single caller
\* (SpecSingle) and for fetches made while a reading is cached, where neither
\* a race between callers nor the empty-cache rule of line 119 is involved.
C1_FetchesIntervalApart ==
    [][ \A t \in Threads :
          ( /\ pc[t] = "fetch126" /\ Moves(t)
            /\ last_fetch # None
            /\ cached_data # None )
             => now - Get(last_fetch) >= MIN_API_INTERVAL_SECONDS ]_vars

(* ------------------------------------------------------------------ *)
(* C2                                                                  *)
(* ------------------------------------------------------------------ *)

\* C2: with a single caller (SpecSingle), once a call has fetched
\* successfully, a later call whose rate-limit check reads the clock less
\* than 300 s after that fetch goes to the cached return without an
\* upstream call, returns exactly the reading that fetch stored, and no step
\* of it changes the cached reading, the last-call time or the error fields.
C2_CacheHitWithinInterval ==
    [][ \A t \in Threads :
          /\ ( /\ pc[t] = "check109" /\ Moves(t)
               /\ fetched # None
               /\ now - Get(fetched).time < MIN_API_INTERVAL_SECONDS )
                => /\ pc'[t] = "progress111"
                   /\ UNCHANGED << cache, last_fetch, upstream >>
          /\ ( pc[t] = "progress111" /\ Moves(t) )
                => /\ pc'[t] = "done"
                   /\ fetched # None
                   /\ ret'[t].kind = "return"
                   /\ ret'[t].data = Get(fetched).data
                   /\ upstream'[t] = << >>
                   /\ UNCHANGED << cache, last_fetch >> ]_vars

\* C2 witness: a second call returned the cached reading within the interval
C2_Witness ==
    /\ pc["t1"] = "done"
    /\ calls >= 2
    /\ fetched # None
    /\ now - Get(fetched).time < MIN_API_INTERVAL_SECONDS
    /\ now > Get(fetched).time
    /\ upstream["t1"] = << >>
    /\ ret["t1"].data = Get(fetched).data

(* ------------------------------------------------------------------ *)
(* C3                                                                  *)
(* ------------------------------------------------------------------ *)

\* C3: a call that found a cached reading at its rate-limit check returns a
\* non-null reading and does not raise, whatever the upstream did.
C3_AvailableWhenCached ==
    \A t \in Threads :
        (pc[t] = "done" /\ entry[t].checked /\ entry[t].had_cache)
           => (ret[t].kind = "return" /\ ret[t].data # None)

(* ------------------------------------------------------------------ *)
(* C4                                                                  *)
(* ------------------------------------------------------------------ *)

\* C4: when the upstream raises, the handler records the message as
\* last_error and the time as last_error_time; the call then returns
\* (cached reading, current refresh progress) if a reading is cached and
\* re-raises the upstream's error otherwise; a call whose upstream did not
\* raise never raises.
C4_UpstreamFailure ==
    [][ \A t \in Threads :
          /\ (pc[t] = "except184" /\ Moves(t))
                => (UpstreamRaised(t) /\ last_error' = LastUp(t).raised)
          /\ (pc[t] = "except185" /\ Moves(t))
                => last_error_time' = Some(now)
          /\ Completes(t)
                => IF UpstreamRaised(t)
                   THEN IF cached_data # None
                        THEN ret'[t] = Return(cached_data,
                                              RefreshProgress(now, last_api_call))
                        ELSE ret'[t] = Raise(Get(LastUp(t).raised))
                   ELSE ret'[t].kind = "return" ]_vars

\* C4 witness: one call fell back to the cache after an upstream error and
\* another one re-raised because nothing was cached
C4_Witness ==
    /\ pc["t1"] = "done" /\ UpstreamRaised("t1")
    /\ ret["t1"].kind = "return" /\ ret["t1"].data # None
    /\ last_error # None /\ last_error_time # None
    /\ pc["t2"] = "done" /\ UpstreamRaised("t2")
    /\ ret["t2"].kind = "raise"

(* ------------------------------------------------------------------ *)
(* C5                                                                  *)
(* ------------------------------------------------------------------ *)

\* C5: after both upstream calls returned nothing, the call only takes the
\* lock and then, in one step, sets the last-call time to the current time
\* and returns (None, 0); it does not raise.
C5_EmptyResult ==
    [][ \A t \in Threads :
          (BothEmpty(t) /\ pc[t] # "done" /\ Moves(t))
             => \/ /\ pc'[t] = "store138"
                   /\ UNCHANGED cache
                \/ /\ pc'[t] = "done"
                   /\ ret'[t] = Return(None, 0)
                   /\ last_api_call' = Some(now) ]_vars

\* C5 witness: an empty result was returned and its time recorded
C5_Witness ==
    \E t \in Threads :
        /\ pc[t] = "done" /\ BothEmpty(t)
        /\ ret[t] = Return(None, 0)
        /\ last_api_call = Some(now)
        /\ now > 0

(* ------------------------------------------------------------------ *)
(* C6                                                                  *)
(* ------------------------------------------------------------------ *)

FetchPath ==
    { "client123", "fetch126", "latest131", "lock136", "store138", "lock164",
      "store165", "except184", "except185", "lock188", "fallback189", "done" }

\* C6: a call whose rate-limit check found a call time recorded less than
\* 300 s ago and no cached reading goes on to the upstream fetch: it leaves
\* the check without the lock, never takes the cached return, and once past
\* line 126 it has called get_glucose_readings.
C6_AdvisoryWithoutCache ==
    \A t \in Threads :
        (entry[t].checked /\ entry[t].limited /\ ~entry[t].had_cache)
           => /\ pc[t] \in FetchPath
              /\ pc[t] \in {"client123", "fetch126"} => lock # Some(t)
              /\ pc[t] \notin {"client123", "fetch126"}
                    => (upstream[t] # << >> /\ upstream[t][1].call = "recent")

\* C6 witness: a rate-limited call without cached data has fetched
C6_Witness ==
    \E t \in Threads :
        /\ entry[t].checked /\ entry[t].limited /\ ~entry[t].had_cache
        /\ pc[t] = "done"
        /\ upstream[t] # << >>

(* ------------------------------------------------------------------ *)
(* C7                                                                  *)
(* ------------------------------------------------------------------ *)

\* C7: after the upstream returned at least one reading, the call only takes
\* the lock and then, in one step, stores the reading it built as the cached
\* reading, sets the last-call time to now, clears last_error and
\* last_error_time and returns (that reading, 0).
C7_SuccessfulFetch ==
    [][ \A t \in Threads :
          (GotReadings(t) /\ pc[t] # "done" /\ Moves(t))
             => \/ /\ pc'[t] = "store165"
                   /\ UNCHANGED cache
                \/ /\ pc'[t] = "done"
                   /\ glucose_data[t] # None
                   /\ Get(glucose_data[t]).value = LastUp(t).readings[1].value
                   /\ cached_data' = glucose_data[t]
                   /\ last_api_call' = Some(now)
                   /\ last_error' = None
                   /\ last_error_time' = None
                   /\ ret'[t] = Return(glucose_data[t], 0) ]_vars

\* C7 witness: a successful fetch replaced an older cached reading and
\* cleared a recorded error
C7_Witness ==
    \E t \in Threads :
        /\ pc[t] = "done" /\ GotReadings(t)
        /\ calls >= 3
        /\ cached_data = ret[t].data
        /\ Get(cached_data).value = 149
        /\ last_error = None
        /\ last_api_call = Some(now)
        /\ now >= MIN_API_INTERVAL_SECONDS

(* ------------------------------------------------------------------ *)
(* C8                                                                  *)
(* ------------------------------------------------------------------ *)

\* C8: a reading built from a two-element source sequence (newest first) has
\* value = newest.value, previous_value = older.value and delta =
\* newest.value - older.value ([149, 160] gives 149, 160, -11); a reading
\* built from a one-element sequence has delta and previous_value absent.
C8_DeltaFromTwoReadings ==
    \A t \in Threads :
        (GotReadings(t) /\ LastUp(t).call = "recent" /\ Built(t) # None)
           => LET r == LastUp(t).readings
                  g == Get(Built(t))
              IN  /\ g.value = r[1].value
                  /\ Len(r) = 2 =>
                        /\ g.previous_value = Some(r[2].value)
                        /\ g.delta = Some(r[1].value - r[2].value)
                  /\ Len(r) = 1 =>
                        /\ g.previous_value = None
                        /\ g.delta = None
                  /\ r = << R149, R160 >> =>
                        /\ g.value = 149
                        /\ g.previous_value = Some(160)
                        /\ g.delta = Some(-11)

\* C8 witness: the call returned the reading built from [149, 160]
C8_Witness ==
    \E t \in Threads :
        /\ pc[t] = "done"
        /\ GotReadings(t)
        /\ LastUp(t).readings = << R149, R160 >>
        /\ Get(ret[t].data).delta = Some(-11)

(* ------------------------------------------------------------------ *)
(* C9                                                                  *)
(* ------------------------------------------------------------------ *)

\* delta and previous_value are both present or both absent, and when
\* present delta = value - previous_value
Paired(g) ==
    /\ (g.delta = None) <=> (g.previous_value = None)
    /\ g.delta # None => Get(g.delta) = g.value - Get(g.previous_value)

\* C9: in every reachable state the cached reading, every reading a call
\* holds and every reading a call returned has delta and previous_value
\* both present or both absent, with delta = value - previous_value.
C9_DeltaPaired ==
    /\ cached_data # None => Paired(Get(cached_data))
    /\ \A t \in Threads :
          /\ glucose_data[t] # None => Paired(Get(glucose_data[t]))
          /\ ret[t].data # None => Paired(Get(ret[t].data))

\* C9 witness: a reading with a delta is cached while a call returned one
\* without
C9_Witness ==
    /\ cached_data # None
    /\ Get(cached_data).delta # None
    /\ \E t \in Threads :
          /\ pc[t] = "done"
          /\ ret[t].data # None
          /\ Get(ret[t].data).delta = None

(* ------------------------------------------------------------------ *)
(* C10                                                                 *)
(* ------------------------------------------------------------------ *)

\* C10: within one call get_latest_glucose_reading is called only directly
\* after get_glucose_readings returned empty, so never after it returned a
\* reading; a reading obtained through the fallback has delta and
\* previous_value absent (value 120 gives value 120, no delta).
C10_FallbackOnlyAfterEmpty ==
    \A t \in Threads :
        /\ \A i \in 1..Len(upstream[t]) :
              upstream[t][i].call = "latest"
                 => (i = 2 /\ upstream[t][1] = UpCall("recent", None, << >>))
        /\ (GotReadings(t) /\ LastUp(t).call = "latest" /\ Built(t) # None)
              => LET g == Get(Built(t))
                 IN  /\ g.value = Get(LastUp(t).readings).value
                     /\ g.delta = None
                     /\ g.previous_value = None
                     /\ LastUp(t).readings = Some(R120) => g.value = 120

\* C10 witness: the fallback delivered 120 and the call returned it
C10_Witness ==
    \E t \in Threads :
        /\ pc[t] = "done"
        /\ Len(upstream[t]) = 2
        /\ upstream[t][2] = UpCall("latest", None, Some(R120))
        /\ ret[t].data # None
        /\ Get(ret[t].data).value = 120
        /\ Get(ret[t].data).delta = None

(* ------------------------------------------------------------------ *)
(* C11                                                                 *)
(* ------------------------------------------------------------------ *)

\* counter c of the instance exists and this step adds one to it
Incremented(c) ==
    /\ counters[c] # None
    /\ counters'[c] = Some(Get(counters[c]) + 1)

\* counter c does not decrease in this step
NotDecreased(c) ==
    counters[c] # None
       => (counters'[c] # None /\ Get(counters'[c]) >= Get(counters[c]))

\* C11: the usage counters exist and move as specified: a call that ends
\* with a successful fetch increments total_api_calls, a call that ends with
\* a cache hit increments cache_hits and leaves total_api_calls unchanged, a
\* call whose upstream raised increments api_errors, and no step decreases a
\* counter.
C11_CountersMove ==
    [][ /\ \A t \in Threads :
              /\ (Completes(t) /\ GotReadings(t))
                    => Incremented("total_api_calls")
              /\ (Completes(t) /\ pc[t] = "progress111")
                    => /\ Incremented("cache_hits")
                       /\ counters'.total_api_calls = counters.total_api_calls
              /\ (Completes(t) /\ UpstreamRaised(t))
                    => Incremented("api_errors")
        /\ \A c \in {"total_api_calls", "cache_hits", "api_errors"} :
              NotDecreased(c) ]_vars

(* ------------------------------------------------------------------ *)
(* C12                                                                 *)
(* ------------------------------------------------------------------ *)

C13_RefreshProgress ==
    status.op = "progress" =>
        /\ last_api_call = None => status.value = 100
        /\ last_api_call # None =>
              LET elapsed == now - Get(last_api_call)
                  floor == (100 * elapsed) \div MIN_API_INTERVAL_SECONDS
              IN  /\ status.value = (IF floor < 100 THEN floor ELSE 100)
                  /\ elapsed = 0 => status.value = 0
                  /\ elapsed >= MIN_API_INTERVAL_SECONDS => status.value = 100
        /\ status.value \in 0..100
        /\ (status.value = 100) <=> CanCallApi(now, last_api_call)

(* ------------------------------------------------------------------ *)
(* C14                                                                 *)
(* ------------------------------------------------------------------ *)

\* C14: get_seconds_until_next_call returns 0 if no call time was recorded,
\* otherwise max(0, 300 - elapsed since the last recorded call); the result
\* is in 0..300.
C14_SecondsUntilNextCall ==
    status.op = "seconds" =>
        /\ last_api_call = None => status.value = 0
        /\ last_api_call # None =>
              LET left == MIN_API_INTERVAL_SECONDS - (now - Get(last_api_call))
              IN  status.value = (IF left > 0 THEN left ELSE 0)
        /\ status.value \in 0..MIN_API_INTERVAL_SECONDS

\* C14 witness: more than 300 s after the recorded call the result is 0
C14_Witness ==
    /\ status.op = "seconds"
    /\ last_api_call # None
    /\ now - Get(last_api_call) > MIN_API_INTERVAL_SECONDS
    /\ status.value = 0

(* ------------------------------------------------------------------ *)
(* C15                                                                 *)
(* ------------------------------------------------------------------ *)

\* the positions of get_current_reading outside every "with self._lock:"
\* block where the upstream is called
Fetching(t) == pc[t] \in {"client123", "fetch126", "latest131"}

\* the positions inside a "with self._lock:" block
InCriticalSection(t) ==
    pc[t] \in {"check109", "progress111", "store138", "store165", "fallback189"}

\* C15: the lock is never held by a caller whose upstream fetch is executing;
\* while a fetch is in flight a holder of the lock is inside a short critical
\* section that it can finish, and when the lock is free get_refresh_progress,
\* get_seconds_until_next_call and a call entering get_current_reading can
\* take it.
C15_LockFreeDuringFetch ==
    /\ \A t \in Threads : Fetching(t) => lock # Some(t)
    /\ \A t \in Threads :
          lock = Some(t) => /\ InCriticalSection(t)
                            /\ ENABLED Step(t)
    /\ ((\E t \in Threads : Fetching(t)) /\ lock = None) =>
          /\ ENABLED GetRefreshProgress
          /\ ENABLED GetSecondsUntilNextCall
          /\ \A u \in Threads : pc[u] = "lock107" => ENABLED AcquireLock(u)

\* C15 witness: t2 holds the lock on the cached return while t1's upstream
\* fetch is in flight
C15_Witness ==
    /\ pc["t1"] \in {"fetch126", "latest131"}
    /\ pc["t2"] = "progress111"
    /\ lock = Some("t2")

(* ------------------------------------------------------------------ *)
(* C16                                                                 *)
(* ------------------------------------------------------------------ *)

\* C16: every step of a caller that writes the cache state (cached reading,
\* last call time, last error, last error time) is taken holding the lock,
\* the writes on the fetch-failure path included.
C16_CacheWrittenUnderLock ==
    [][ \A t \in Threads :
            (Moves(t) /\ cache' # cache) => lock = Some(t) ]_vars

(* ------------------------------------------------------------------ *)
(* C17                                                                 *)
(* ------------------------------------------------------------------ *)

\* C17: when the upstream fetch fails and nothing is cached, the /glucose
\* endpoint answers as it does for a null reading: HTTP 503
\* (DexcomNoDataError).
C17_FailureIsNoData ==
    \A t \in Threads :
        (pc[t] = "done" /\ UpstreamRaised(t) /\ cached_data = None) =>
            /\ GlucoseEndpointStatus(ret[t]) = GlucoseEndpointStatus(Return(None, 0))
            /\ GlucoseEndpointStatus(ret[t]) = 503

(* ------------------------------------------------------------------ *)
(* C18                                                                 *)
(* ------------------------------------------------------------------ *)

\* the thresholds are ordered critical_low < low <= high <= very_high
OrderedThresholds(st) ==
    /\ st.glucose_critical_low < st.glucose_low
    /\ st.glucose_low <= st.glucose_high
    /\ st.glucose_high <= st.glucose_very_high

\* the configured colours in band order
BandColors(st) ==
    << st.color_critical_low, st.color_low, st.color_normal, st.color_high,
       st.color_very_high >>

\* C18: the colour is the one of the first matching test in the order
\* value < criticalLow, value < low, value <= high, value <= veryHigh, else;
\* with ordered thresholds the five bands partition the values, so exactly
\* one band contains the value and the colour is that band's.
C18_FirstMatchingBand ==
    payload # None =>
        LET v == Get(fmt_in).glucose_data.value
            st == Get(fmt_in).settings
            tests == << v < st.glucose_critical_low,
                        v < st.glucose_low,
                        v <= st.glucose_high,
                        v <= st.glucose_very_high,
                        TRUE >>
            bands == << v < st.glucose_critical_low,
                        st.glucose_critical_low <= v /\ v < st.glucose_low,
                        st.glucose_low <= v /\ v <= st.glucose_high,
                        st.glucose_high < v /\ v <= st.glucose_very_high,
                        st.glucose_very_high < v >>
        IN  OrderedThresholds(st) =>
              /\ \E i \in 1..5 :
                    /\ tests[i]
                    /\ \A j \in 1..(i - 1) : ~tests[j]
                    /\ Get(payload).color = BandColors(st)[i]
              /\ \E i \in 1..5 :
                    /\ bands[i]
                    /\ \A j \in (1..5) \ {i} : ~bands[j]
                    /\ Get(payload).color = BandColors(st)[i]

\* C18 witness: a value equal to the low threshold is formatted in the
\* normal colour
C18_Witness ==
    /\ payload # None
    /\ OrderedThresholds(Get(fmt_in).settings)
    /\ Get(fmt_in).glucose_data.value = Get(fmt_in).settings.glucose_low
    /\ Get(payload).color = Get(fmt_in).settings.color_normal

(* ------------------------------------------------------------------ *)
(* C19                                                                 *)
(* ------------------------------------------------------------------ *)

\* C19: a value below criticalLow gets the critical-low colour, a background
\* and blinkText = 500; blinkText is set if and only if value < criticalLow,
\* so 55 with criticalLow 55 does not blink and 54 does.
C19_CriticalLow ==
    payload # None =>
        LET v == Get(fmt_in).glucose_data.value
            st == Get(fmt_in).settings
            r == Get(payload)
        IN  /\ v < st.glucose_critical_low =>
                  /\ r.color = st.color_critical_low
                  /\ r.background # None
                  /\ r.blinkText = Some(500)
            /\ (r.blinkText # None) <=> (v < st.glucose_critical_low)
            /\ (v = 55 /\ st.glucose_critical_low = 55) => r.blinkText = None
            /\ (v = 54 /\ st.glucose_critical_low = 55) => r.blinkText = Some(500)

\* C19 witness: 54 with criticalLow 55 blinks on the critical-low colour
C19_Witness ==
    /\ payload # None
    /\ Get(fmt_in).glucose_data.value = 54
    /\ Get(fmt_in).settings.glucose_critical_low = 55
    /\ Get(payload).blinkText = Some(500)
    /\ Get(payload).color = Get(fmt_in).settings.color_critical_low
    /\ Get(payload).background # None

(* ------------------------------------------------------------------ *)
(* C20                                                                 *)
(* ------------------------------------------------------------------ *)

\* C20: the background is present if and only if value < criticalLow (then
\* [64,0,0]) or value > veryHigh (then [64,32,0]); with ordered thresholds a
\* value in [low, high] gets the normal colour, no background and no blink.
C20_Background ==
    payload # None =>
        LET v == Get(fmt_in).glucose_data.value
            st == Get(fmt_in).settings
            r == Get(payload)
        IN  /\ (r.background # None) <=>
                  (v < st.glucose_critical_low \/ v > st.glucose_very_high)
            /\ v < st.glucose_critical_low => r.background = Some(<< 64, 0, 0 >>)
            /\ (v >= st.glucose_critical_low /\ v > st.glucose_very_high) =>
                  r.background = Some(<< 64, 32, 0 >>)
            /\ (OrderedThresholds(st) /\ st.glucose_low <= v /\ v <= st.glucose_high) =>
                  /\ r.color = st.color_normal
                  /\ r.background = None
                  /\ r.blinkText = None

\* C20 witness: a value above veryHigh gets the dim orange background
C20_Witness ==
    /\ payload # None
    /\ OrderedThresholds(Get(fmt_in).settings)
    /\ Get(fmt_in).glucose_data.value = Get(fmt_in).settings.glucose_very_high + 1
    /\ Get(payload).background = Some(<< 64, 32, 0 >>)
    /\ Get(payload).blinkText = None


(* ------------------------------------------------------------------ *)
(* C21                                                                 *)
(* ------------------------------------------------------------------ *)

\* the arrow's commands in a draw list: all but the texts
ArrowOf(draw) == SelectSeq(draw, LAMBDA c : "dt" \notin DOMAIN c)

\* the glyph a list of arrow commands shows, read from its shape: a line
\* along a row is the horizontal arrow; a line along a column is a vertical
\* arrow pointing to its tip pixel; eight pixels are a diagonal that rises
\* or falls from its first to its fifth pixel
GlyphKind(cmds) ==
    IF "dl" \in DOMAIN cmds[1]
    THEN IF cmds[1].dl[2] = cmds[1].dl[4] THEN "horizontal"
         ELSE IF cmds[2].dp[2] < cmds[1].dl[2] THEN "up" ELSE "down"
    ELSE IF cmds[5].dp[2] < cmds[1].dp[2] THEN "up-right" ELSE "down-right"

\* C21: with 0 <= stableThreshold <= rapidThreshold the arrow is horizontal
\* when delta is absent or |delta| <= stableThreshold, vertical (up for a
\* positive delta, down for a negative one) when |delta| > rapidThreshold,
\* and diagonal (up-right or down-right by sign) otherwise.
C21_ArrowSelection ==
    payload # None =>
        LET d == Get(fmt_in).glucose_data.delta
            st == Get(fmt_in).settings
            mag == IF Get(d) < 0 THEN 0 - Get(d) ELSE Get(d)
            kind == GlyphKind(ArrowOf(Get(payload).draw))
        IN  (0 <= st.delta_stable_threshold
             /\ st.delta_stable_threshold <= st.delta_rapid_threshold) =>
                IF d = None THEN kind = "horizontal"
                ELSE IF mag <= st.delta_stable_threshold THEN kind = "horizontal"
                ELSE IF mag > st.delta_rapid_threshold
                THEN kind = (IF Get(d) > 0 THEN "up" ELSE "down")
                ELSE kind = (IF Get(d) > 0 THEN "up-right" ELSE "down-right")

\* C21 witness: a delta equal to the stable threshold, below the rapid one,
\* is drawn as the horizontal arrow
C21_Witness ==
    /\ payload # None
    /\ Get(fmt_in).glucose_data.delta = Some(5)
    /\ Get(fmt_in).settings.delta_stable_threshold = 5
    /\ Get(fmt_in).settings.delta_rapid_threshold = 20
    /\ GlyphKind(ArrowOf(Get(payload).draw)) = "horizontal"


(* ------------------------------------------------------------------ *)
(* C22                                                                 *)
(* ------------------------------------------------------------------ *)

RECURSIVE TableWidths(_)
\* the sum of the per-character widths of a text: 2 for "1", "i", "l", ":"
\* and the space, 4 for every other character
TableWidths(text) ==
    IF text = << >> THEN 0
    ELSE (IF Head(text) \in {"1", "i", "l", ":", " "} THEN 2 ELSE 4)
         + TableWidths(Tail(text))

\* the character widths plus one pixel between consecutive characters
LaidOutWidth(text) ==
    IF text = << >> THEN 0 ELSE TableWidths(text) + (Len(text) - 1)

\* the columns an arrow command touches
Columns(c) == IF "dl" \in DOMAIN c THEN {c.dl[1], c.dl[3]} ELSE {c.dp[1]}

\* the leftmost column of a glyph
GlyphLeft(cmds) ==
    CHOOSE x \in UNION {Columns(cmds[i]) : i \in DOMAIN cmds} :
        \A y \in UNION {Columns(cmds[i]) : i \in DOMAIN cmds} : x <= y

\* C22: the draw list is the value text at (0,0), then the arrow starting at
\* the estimated width of the value text + 1, then, only when delta is
\* present, the delta text at arrow x + 5 + 1; the estimated width is the sum
\* of the character widths plus one pixel between characters, 0 when empty.
C22_Layout ==
    /\ payload # None =>
        LET draw == Get(payload).draw
            v == Get(fmt_in).glucose_data.value
            d == Get(fmt_in).glucose_data.delta
            arrow == ArrowOf(draw)
            n == Len(arrow)
            arrow_x == LaidOutWidth(Str(v)) + 1
        IN  /\ "dt" \in DOMAIN draw[1]
            /\ draw[1].dt[1] = 0 /\ draw[1].dt[2] = 0 /\ draw[1].dt[3] = Str(v)
            /\ n > 0
            /\ \A i \in 2..(n + 1) : "dt" \notin DOMAIN draw[i]
            /\ GlyphLeft(arrow) = arrow_x
            /\ d = None => Len(draw) = n + 1
            /\ d # None =>
                  /\ Len(draw) = n + 2
                  /\ "dt" \in DOMAIN draw[n + 2]
                  /\ draw[n + 2].dt[1] = arrow_x + 5 + 1
                  /\ draw[n + 2].dt[2] = 0
    /\ status.op = "width" => status.value = LaidOutWidth(status.arg)

\* C22 witness: "111" is 8 pixels wide, so the arrow starts in column 9 and
\* the delta text in column 15
C22_Witness ==
    /\ payload # None
    /\ Get(fmt_in).glucose_data.value = 111
    /\ Get(fmt_in).glucose_data.delta # None
    /\ GlyphLeft(ArrowOf(Get(payload).draw)) = 9
    /\ Get(payload).draw[Len(Get(payload).draw)].dt[1] = 15
    /\ status.op = "width"
    /\ status.arg = << >>
    /\ status.value = 0


(* ------------------------------------------------------------------ *)
(* C23                                                                 *)
(* ------------------------------------------------------------------ *)

\* the text commands of a draw list after the value text
DeltaTexts(draw) == SelectSeq(Tail(draw), LAMBDA c : "dt" \in DOMAIN c)

\* C23: the delta text is drawn if and only if delta is present; it is the
\* decimal value with a leading "+" for delta >= 0 ("+0" for 0) and with the
\* minus sign for a negative delta.
C23_DeltaText ==
    payload # None =>
        LET d == Get(fmt_in).glucose_data.delta
            texts == DeltaTexts(Get(payload).draw)
        IN  /\ d = None => texts = << >>
            /\ d # None =>
                  /\ Len(texts) = 1
                  /\ Get(d) >= 0 => texts[1].dt[3] = << "+" >> \o NatStr(Get(d))
                  /\ Get(d) < 0 => texts[1].dt[3] = << "-" >> \o NatStr(0 - Get(d))
                  /\ Get(d) = 0 => texts[1].dt[3] = << "+", "0" >>
                  /\ Get(d) = -21 => texts[1].dt[3] = << "-", "2", "1" >>
                  /\ Get(d) = 20 => texts[1].dt[3] = << "+", "2", "0" >>

\* C23 witness: a zero delta is drawn as "+0"
C23_Witness ==
    /\ payload # None
    /\ Get(fmt_in).glucose_data.delta = Some(0)
    /\ DeltaTexts(Get(payload).draw)[1].dt[3] = << "+", "0" >>


(* ------------------------------------------------------------------ *)
(* C24                                                                 *)
(* ------------------------------------------------------------------ *)

\* C24: the payload's progress equals the refresh_progress argument, with
\* the configured progress colours; for the progress returned by
\* get_current_reading, as /glucose passes it on, the value is in 0..100.
C24_ProgressBar ==
    \A t \in Threads :
        (pc[t] = "done" /\ ret[t].kind = "return" /\ ret[t].data # None) =>
            LET r == GlucoseEndpointResponse(ret[t], DefaultSettings)
            IN  /\ r.progress = ret[t].progress
                /\ r.progress \in 0..100
                /\ r.progressC = DefaultSettings.color_progress_bar
                /\ r.progressBC = DefaultSettings.color_progress_bg
                /\ \A p \in RefreshProgresses :
                      LET q == FormatForAwtrixResponse(Get(ret[t].data),
                                                       DefaultSettings, p)
                      IN  /\ q.progress = p
                          /\ q.progressC = DefaultSettings.color_progress_bar
                          /\ q.progressBC = DefaultSettings.color_progress_bg

\* C24 witness: more than the interval after the last fetch a failing fetch
\* falls back to the cached reading, and the payload shows progress 100
C24_Witness ==
    /\ pc["t1"] = "done"
    /\ ret["t1"].kind = "return"
    /\ ret["t1"].data # None
    /\ last_api_call # None
    /\ now - Get(last_api_call) > MIN_API_INTERVAL_SECONDS
    /\ GlucoseEndpointResponse(ret["t1"], DefaultSettings).progress = 100


(* ------------------------------------------------------------------ *)
(* C25                                                                 *)
(* ------------------------------------------------------------------ *)

\* C25: format_for_awtrix never raises, for every reading, progress and
\* threshold configuration of the application's Settings, and the payload
\* is determined by the inputs.
C25_TotalDeterministic ==
    /\ status.op # "AttributeError"
    /\ payload # None =>
          payload = Some(FormatForAwtrixResponse(Get(fmt_in).glucose_data,
                                                 Get(fmt_in).settings,
                                                 Get(fmt_in).refresh_progress))


(* ------------------------------------------------------------------ *)
(* C26                                                                 *)
(* ------------------------------------------------------------------ *)

\* C26: at the instant a call makes its rate-limit check, it goes
\* on to the upstream fetch exactly when can_refresh_now is true.
C26_CanRefreshIffFetch ==
    [][ \A t \in Threads :
            (pc[t] = "check109" /\ Moves(t)) =>
                ((pc'[t] = "client123") <=> CanRefreshNow(now, last_api_call)) ]_vars


(* ------------------------------------------------------------------ *)
(* C27                                                                 *)
(* ------------------------------------------------------------------ *)

\* C27: a call whose rate-limit check found the interval expired or no prior
\* call goes on to the upstream fetch whatever the other callers are doing
\* (no single flight); one call makes at most one get_glucose_readings call.
C27_NotSingleFlight ==
    \A t \in Threads :
        /\ (entry[t].checked /\ ~entry[t].limited) => pc[t] \in FetchPath
        /\ Cardinality({ i \in DOMAIN upstream[t] :
                            upstream[t][i].call = "recent" }) <= 1

\* C27 witness: both callers passed the check after the interval expired,
\* with a reading cached, and both fetches are in flight
C27_Witness ==
    /\ pc["t1"] = "fetch126"
    /\ pc["t2"] = "fetch126"
    /\ entry["t1"].checked /\ ~entry["t1"].limited
    /\ entry["t2"].checked /\ ~entry["t2"].limited
    /\ cached_data # None
    /\ lock = None


(* ------------------------------------------------------------------ *)
(* C28                                                                 *)
(* ------------------------------------------------------------------ *)

\* C28: no step of a call other than the two stores changes the cached
\* reading or the last-call time, so a fetch that raises changes only the
\* error fields; a call that checks after a failure with the interval
\* expired or no prior call goes to the upstream fetch again; the store of
\* an empty result changes only the last-call time.
C28_FailureKeepsCache ==
    [][ \A t \in Threads :
          /\ (Moves(t) /\ pc[t] \notin {"store138", "store165"}) =>
                /\ cached_data' = cached_data
                /\ last_api_call' = last_api_call
          /\ (Moves(t) /\ pc[t] \in {"except184", "except185", "lock188",
                                     "fallback189"}) =>
                UNCHANGED << cached_data, last_api_call, last_fetch >>
          /\ (pc[t] = "check109" /\ Moves(t) /\ last_error # None
              /\ (last_api_call = None
                  \/ now - Get(last_api_call) >= MIN_API_INTERVAL_SECONDS)) =>
                pc'[t] = "client123"
          /\ (pc[t] = "store138" /\ Moves(t)) =>
                /\ last_api_call' = Some(now)
                /\ UNCHANGED << cached_data, last_error, last_error_time >> ]_vars

\* C28 witness: a fetch has just failed, the cached reading and its call
\* time are as before, and the next call is fetching again at the same
\* instant
C28_Witness ==
    /\ last_error # None
    /\ last_error_time = Some(now)
    /\ cached_data # None
    /\ last_api_call # None
    /\ now - Get(last_api_call) >= MIN_API_INTERVAL_SECONDS
    /\ pc["t1"] = "fetch126"
    /\ calls >= 3


(* ------------------------------------------------------------------ *)
(* C29                                                                 *)
(* ------------------------------------------------------------------ *)

\* C29: in every reachable state a cached reading implies a recorded
\* last-call time; while no call time is recorded (the initial state
\* included) nothing is cached, get_refresh_progress is 100 and
\* get_seconds_until_next_call is 0.
C29_CachedImpliesCallTime ==
    /\ cached_data # None => last_api_call # None
    /\ last_api_call = None =>
          /\ cached_data = None
          /\ RefreshProgress(now, last_api_call) = 100
          /\ SecondsRemaining(now, last_api_call) = 0

\* C29 witness: one caller has cached a reading with its call time while
\* the other caller's fetch is in flight
C29_Witness ==
    /\ cached_data # None
    /\ last_api_call # None
    /\ pc["t1"] = "done"
    /\ ret["t1"].data = cached_data
    /\ pc["t2"] = "fetch126"


(* ------------------------------------------------------------------ *)
(* C30                                                                 *)
(* ------------------------------------------------------------------ *)

\* C30: whenever no get_current_reading call is in progress the error
\* message and the error time are both set or both clear, for every
\* interleaving; after a successful fetch by the only caller both are clear.
C30_ErrorPair ==
    /\ (\A t \in Threads : pc[t] \in {"idle", "done"}) =>
          ((last_error = None) <=> (last_error_time = None))
    /\ \A t \in Threads :
          (/\ pc[t] = "done" /\ GotReadings(t)
           /\ \A u \in Threads \ {t} : pc[u] = "idle") =>
              (last_error = None /\ last_error_time = None)


(* ------------------------------------------------------------------ *)
(* C31                                                                 *)
(* ------------------------------------------------------------------ *)

\* the measurement time of a cached reading
MeasuredAt(data) == Get(Get(data).timestamp)

\* C31: with an upstream whose measurement times never go backwards, no
\* step replaces the cached reading by one measured earlier.
C31_CacheNeverOlder ==
    [][ (cached_data # None /\ cached_data' # None) =>
            MeasuredAt(cached_data') >= MeasuredAt(cached_data) ]_vars


(* ------------------------------------------------------------------ *)
(* C32                                                                 *)
(* ------------------------------------------------------------------ *)

\* the positions where a caller waits for the lock
AtLock(t) == pc[t] \in {"lock107", "lock136", "lock164", "lock188"}

\* C32: no caller waits for the lock while holding it, the lock is held only
\* inside a with block and never after a call has returned or raised, a free
\* lock can be taken by get_refresh_progress and get_seconds_until_next_call;
\* so a held lock is eventually released and every call of
\* get_current_reading eventually completes.
C32_NoDeadlock ==
    /\ [](\A t \in Threads :
            /\ AtLock(t) => lock # Some(t)
            /\ lock = Some(t) => InCriticalSection(t)
            /\ pc[t] \in {"idle", "done"} => lock # Some(t))
    /\ [](lock = None =>
            (ENABLED GetRefreshProgress /\ ENABLED GetSecondsUntilNextCall))
    /\ (lock # None) ~> (lock = None)
    /\ \A t \in Threads : (pc[t] \notin {"idle", "done"}) ~> (pc[t] = "done")

\* C32 witness: a caller on the failure path waits for the lock while the
\* other caller holds it in its success store
C32_Witness ==
    /\ pc["t1"] = "lock188"
    /\ pc["t2"] = "store165"
    /\ lock = Some("t2")


(* ------------------------------------------------------------------ *)
(* C33                                                                 *)
(* ------------------------------------------------------------------ *)

\* the rows an arrow command touches
Rows(c) == IF "dl" \in DOMAIN c THEN {c.dl[2], c.dl[4]} ELSE {c.dp[2]}

\* C33: every pixel and line endpoint of the arrow lies in columns x..x+4
\* and rows 0..6, x being the arrow's start column; the delta text starts at
\* x + 6 (arrow width 5 and one pixel gap), a column the arrow does not
\* touch.
C33_ArrowInBox ==
    payload # None =>
        LET draw == Get(payload).draw
            arrow == ArrowOf(draw)
            texts == DeltaTexts(draw)
            x == LaidOutWidth(Str(Get(fmt_in).glucose_data.value)) + 1
        IN  /\ \A i \in DOMAIN arrow :
                  /\ Columns(arrow[i]) \subseteq x..(x + 4)
                  /\ Rows(arrow[i]) \subseteq 0..6
            /\ \A k \in DOMAIN texts :
                  /\ texts[k].dt[1] = x + 6
                  /\ \A i \in DOMAIN arrow :
                        \A col \in Columns(arrow[i]) : col < texts[k].dt[1] - 1

\* C33 witness: the down arrow reaches row 6 and column x + 4, and the delta
\* text follows at x + 6
C33_Witness ==
    /\ payload # None
    /\ Get(fmt_in).glucose_data.value = 179
    /\ DeltaTexts(Get(payload).draw) # << >>
    /\ DeltaTexts(Get(payload).draw)[1].dt[1] = 19
    /\ GlyphKind(ArrowOf(Get(payload).draw)) = "down"
    /\ \E i \in DOMAIN ArrowOf(Get(payload).draw) :
          /\ 6 \in Rows(ArrowOf(Get(payload).draw)[i])
    /\ \E i \in DOMAIN ArrowOf(Get(payload).draw) :
          /\ 17 \in Columns(ArrowOf(Get(payload).draw)[i])


\* ---------------------------------------------------------------------
\* MQTTPublisher (mqtt_publisher.py)
\* ---------------------------------------------------------------------

\* how many paho clients connect() may construct
MaxConnects == 2

\* how many messages publish() may hand to the client
MaxPublishes == 2

\* mqtt.MQTT_ERR_SUCCESS, the rc of a publish the client accepted
MQTT_ERR_SUCCESS == 0

\* result codes of self._client.publish: accepted, or no connection
PublishRcs == {MQTT_ERR_SUCCESS, 4}

\* CONNACK codes on_connect reports: accepted, or not authorised
ConnackRcs == {0, 5}

\* codes on_disconnect reports: requested, or unexpected
DisconnectRcs == {0, 1}

\* everything but the publisher
notMqtt == << client, counters, statistics, status, fmt_in, payload >>

\* connect(): a new client with both callbacks; True once its loop is started,
\* False when a step raised, before or after self._client was assigned
Connect ==
    /\ mqtt.created < MaxConnects
    /\ LET new == mqtt.created + 1 IN
       \/ mqtt' = [mqtt EXCEPT !.client = Some(new), !.created = new,
                               !.loops = @ \cup {new},
                               !.last = [op |-> "connect", rc |-> 0, result |-> TRUE]]
       \/ mqtt' = [mqtt EXCEPT !.client = Some(new), !.created = new,
                               !.last = [op |-> "connect", rc |-> 0, result |-> FALSE]]
       \/ mqtt' = [mqtt EXCEPT !.last = [op |-> "connect", rc |-> 0, result |-> FALSE]]
    /\ UNCHANGED notMqtt

\* disconnect(): with a client, stop its loop and clear the flag
Disconnect ==
    /\ IF mqtt.client # None
       THEN mqtt' = [mqtt EXCEPT !.loops = @ \ {Get(mqtt.client)},
                                 !.connected = FALSE,
                                 !.last = [op |-> "disconnect", rc |-> 0, result |-> FALSE]]
       ELSE mqtt' = [mqtt EXCEPT !.last = [op |-> "disconnect", rc |-> 0, result |-> FALSE]]
    /\ UNCHANGED notMqtt

\* publish() that tests only the client, not the connected flag
Publish_IgnoreConnected ==
    /\ IF mqtt.client = None
       THEN mqtt' = [mqtt EXCEPT !.last = [op |-> "publish", rc |-> 0, result |-> FALSE]]
       ELSE /\ mqtt.sent < MaxPublishes
            /\ \/ \E rc \in PublishRcs :
                     mqtt' = [mqtt EXCEPT !.sent = @ + 1,
                                          !.last = [op |-> "publish", rc |-> rc,
                                                    result |-> (rc = MQTT_ERR_SUCCESS)]]
               \/ mqtt' = [mqtt EXCEPT !.last = [op |-> "publish", rc |-> 0,
                                                 result |-> FALSE]]
    /\ UNCHANGED notMqtt

\* publish(): False without a client or while not connected; otherwise the
\* message goes to the client and the result is its rc, False if it raised
Publish ==
    /\ IF mqtt.client = None \/ ~mqtt.connected
       THEN mqtt' = [mqtt EXCEPT !.last = [op |-> "publish", rc |-> 0, result |-> FALSE]]
       ELSE /\ mqtt.sent < MaxPublishes
            /\ \/ \E rc \in PublishRcs :
                     mqtt' = [mqtt EXCEPT !.sent = @ + 1,
                                          !.last = [op |-> "publish", rc |-> rc,
                                                    result |-> (rc = MQTT_ERR_SUCCESS)]]
               \/ mqtt' = [mqtt EXCEPT !.last = [op |-> "publish", rc |-> 0,
                                                 result |-> FALSE]]
    /\ UNCHANGED notMqtt

\* _on_connect, called from a running network loop
OnConnect ==
    /\ mqtt.loops # {}
    /\ \E rc \in ConnackRcs :
          mqtt' = [mqtt EXCEPT !.connected = IF rc = 0 THEN TRUE ELSE @,
                               !.last = [op |-> "on_connect", rc |-> rc,
                                         result |-> FALSE]]
    /\ UNCHANGED notMqtt

\* _on_disconnect, called from a running network loop
OnDisconnect ==
    /\ mqtt.loops # {}
    /\ \E rc \in DisconnectRcs :
          mqtt' = [mqtt EXCEPT !.connected = FALSE,
                               !.last = [op |-> "on_disconnect", rc |-> rc,
                                         result |-> FALSE]]
    /\ UNCHANGED notMqtt

InitMqtt == InitClient /\ InitOutside

NextMqtt == Connect \/ Disconnect \/ Publish \/ OnConnect \/ OnDisconnect

SpecMqtt == InitMqtt /\ [][NextMqtt]_vars

\* ---------------------------------------------------------------------
\* C34: publish sends nothing and returns False unless the publisher is
\* connected; the connected flag is false initially, becomes true only in an
\* on_connect callback with rc = 0, and is false after disconnect() and after
\* every on_disconnect callback; connect() returning True leaves it as it was
\* ---------------------------------------------------------------------
C34_PublishNeedsConnected ==
    /\ (mqtt.last.op = "init" => ~mqtt.connected)
    /\ [][ /\ (mqtt'.last.op = "publish" /\ mqtt' # mqtt /\ ~mqtt.connected) =>
                 (mqtt'.sent = mqtt.sent /\ ~mqtt'.last.result)
           /\ mqtt'.sent # mqtt.sent => mqtt.connected
           /\ (mqtt'.connected /\ ~mqtt.connected) =>
                 (mqtt'.last.op = "on_connect" /\ mqtt'.last.rc = 0)
           /\ (mqtt'.last.op \in {"disconnect", "on_disconnect"} /\ mqtt' # mqtt) =>
                 ~mqtt'.connected
           /\ (mqtt'.last.op = "connect" /\ mqtt' # mqtt) =>
                 mqtt'.connected = mqtt.connected ]_vars

\* connect() returned True, its on_connect has not arrived, and a publish
\* returned False without sending
C34_Witness ==
    /\ mqtt.last = [op |-> "publish", rc |-> 0, result |-> FALSE]
    /\ mqtt.client = Some(1)
    /\ mqtt.loops = {1}
    /\ mqtt.created = 1
    /\ ~mqtt.connected
    /\ mqtt.sent = 0

====
